---- MODULE Spec2Model ----
(***************************************************************************)
(* Model of the market-making client.                                      *)
(*                                                                         *)
(* Quoter (src/src/bots/mm/quoter.ts): the quote engine generateQuotes,    *)
(* the order translator quoteToOrders and the staleness check              *)
(* isOrderStale.                                                           *)
(*                                                                         *)
(* Order lifecycle (src/src/exchanges/hyperliquid/orders.ts): placeOrder,  *)
(* cancelOrder, cancelAllOrders and getOpenOrders, each an asynchronous    *)
(* function modelled as one step per await, against an exchange that       *)
(* answers every gateway call with a result or a thrown error.             *)
(*                                                                         *)
(* Scanner (src/src/cli/scanner.ts): the refresh loop of main, and the     *)
(* HyperpsPriceFeed class with its connect, poll and disconnect, both      *)
(* modelled as one step per callback or await.                             *)
(*                                                                         *)
(* Numbers.  The source computes on JavaScript numbers, which are IEEE 754 *)
(* doubles.  The model computes on the same doubles, one operator per      *)
(* arithmetic operator of the source (DMul for *, DDiv for /, DFloor for   *)
(* Math.floor, ...), each rounding its exact result as the hardware does.  *)
(***************************************************************************)
EXTENDS Integers, Sequences, FiniteSets, TLC

VARIABLES
    config,     \* Quoter.config
    market,     \* Quoter.market
    call,       \* the latest Quoter method call, its arguments and return value
    exMarkets,  \* the market list the exchange's metadata holds
    exOpen,     \* the native open-order records the exchange holds
    inv,        \* the order-lifecycle invocation in progress or just ended
    scan,       \* the scanner's main(): its locals, its timer and its process
    feed        \* a HyperpsPriceFeed object, its timers and its pending fetches

quoterVars == <<config, market, call>>
ordersVars == <<exMarkets, exOpen, inv>>
cliVars == <<scan, feed>>
vars == <<config, market, call, exMarkets, exOpen, inv, scan, feed>>

(***************************************************************************)
(* Bounds of the explored inputs.                                          *)
(***************************************************************************)
\* fairPrice ranges over 1 .. MaxFairPrice, beside two larger prices
MaxFairPrice == 2
\* isOrderStale: orderPrice = fairPrice + k/2 for k in -MaxStaleHalf .. MaxStaleHalf,
\* beside the offsets at the maximal deviation
MaxStaleHalf == 3

(***************************************************************************)
(* Natural numbers of any size.  TLC's integers are 32-bit, a double's     *)
(* significand has 53 bits, so a natural number is the sequence of its     *)
(* digits in base 2^15, least significant first, without leading zeros     *)
(* (<<>> is 0).  These operators are integer arithmetic only; they carry   *)
(* the significands of the doubles defined after them and stand for no     *)
(* line of the source by themselves.                                       *)
(***************************************************************************)
Base == 32768
LimbBits == 15

Pow2(k) ==
    <<1, 2, 4, 8, 16, 32, 64, 128, 256, 512, 1024, 2048, 4096, 8192, 16384,
      32768>>[k + 1]

\* the number of bits of 0 <= n < Base
BitLenInt(n) == CHOOSE k \in 0..LimbBits : Pow2(k) > n /\ (k = 0 \/ Pow2(k - 1) <= n)

\* the number of trailing zero bits of 0 < n < Base
TrailingZerosInt(n) ==
    CHOOSE k \in 0..(LimbBits - 1) : n % Pow2(k) = 0 /\ n % Pow2(k + 1) # 0

MinInt(a, b) == IF a <= b THEN a ELSE b
MaxInt(a, b) == IF a >= b THEN a ELSE b

BLimb(a, i) == IF i <= Len(a) THEN a[i] ELSE 0

\* a without its leading zero digits
BNorm(a) ==
    LET nz == {i \in 1..Len(a) : a[i] # 0}
    IN  IF nz = {} THEN <<>>
        ELSE SubSeq(a, 1, CHOOSE i \in nz : \A j \in nz : j <= i)

\* the digits of an integer 0 <= n < 2^31 of the model, and back
BOfInt(n) == BNorm(<<n % Base, (n \div Base) % Base, n \div (Base * Base)>>)

BToInt(a) == BLimb(a, 1) + Base * BLimb(a, 2) + Base * Base * BLimb(a, 3)

\* the number whose digit i is s[i], for digit sums 0 <= s[i] <= 2 * Base - 2:
\* a carry of 1 enters digit i when a lower digit j overflows and every digit
\* between them is Base - 1
BCarry(s, i) ==
    \E j \in 1..(i - 1) :
        s[j] >= Base /\ \A l \in (j + 1)..(i - 1) : s[l] = Base - 1

BPropagate(s) ==
    BNorm([i \in 1..(Len(s) + 1) |->
             (BLimb(s, i) + (IF BCarry(s, i) THEN 1 ELSE 0)) % Base])

BAdd(a, b) ==
    BPropagate([i \in 1..MaxInt(Len(a), Len(b)) |-> BLimb(a, i) + BLimb(b, i)])

\* a - b for a >= b: a borrow of 1 enters digit i when a lower digit j is
\* short and every digit between them is level
BBorrow(t, i) ==
    \E j \in 1..(i - 1) : t[j] < 0 /\ \A l \in (j + 1)..(i - 1) : t[l] = 0

BSub(a, b) ==
    LET t == [i \in 1..Len(a) |-> a[i] - BLimb(b, i)]
    IN  BNorm([i \in 1..Len(a) |->
                 (t[i] + Base - (IF BBorrow(t, i) THEN 1 ELSE 0)) % Base])

\* -1, 0, 1 as a < b, a = b, a > b
BCmp(a, b) ==
    IF Len(a) > Len(b) THEN 1
    ELSE IF Len(a) < Len(b) THEN -1
    ELSE LET diff == {i \in 1..Len(a) : a[i] # b[i]}
             top == CHOOSE i \in diff : \A j \in diff : j <= i
         IN  IF diff = {} THEN 0 ELSE IF a[top] > b[top] THEN 1 ELSE -1

\* a * k for 0 <= k < Base
BMulInt(a, k) ==
    LET p == [i \in 1..Len(a) |-> a[i] * k]
    IN  BPropagate([i \in 1..(Len(a) + 1) |->
                      (IF i <= Len(a) THEN p[i] % Base ELSE 0)
                        + (IF i > 1 THEN p[i - 1] \div Base ELSE 0)])

\* a * b, by the digits of b from the top one down
BMul(a, b) ==
    LET upto[j \in 0..Len(b)] ==
            IF j = 0 THEN <<>>
            ELSE LET high == upto[j - 1]
                     row == BMulInt(a, b[Len(b) - j + 1])
                 IN  IF high = <<>> THEN row ELSE BAdd(row, <<0>> \o high)
    IN  IF a = <<>> THEN <<>> ELSE upto[Len(b)]

\* a * 2^k
BShl(a, k) ==
    IF a = <<>> THEN <<>>
    ELSE [i \in 1..(k \div LimbBits) |-> 0] \o BMulInt(a, Pow2(k % LimbBits))

\* floor(a / 2^k)
BShr(a, k) ==
    LET q == k \div LimbBits
        r == k % LimbBits
        n == Len(a) - q
    IN  IF n <= 0 THEN <<>>
        ELSE BNorm([i \in 1..n |->
                      (a[i + q] \div Pow2(r))
                        + (BLimb(a, i + q + 1) % Pow2(r)) * Pow2(LimbBits - r)])

\* a mod 2^k
BLowBits(a, k) ==
    LET q == k \div LimbBits
        r == k % LimbBits
    IN  BNorm([i \in 1..MinInt(Len(a), q + 1) |->
                 IF i <= q THEN a[i] ELSE a[i] % Pow2(r)])

BBitLen(a) ==
    IF a = <<>> THEN 0 ELSE LimbBits * (Len(a) - 1) + BitLenInt(a[Len(a)])

\* bit i of a, bit 0 the least significant
BBit(a, i) == (BLimb(a, i \div LimbBits + 1) \div Pow2(i % LimbBits)) % 2

\* the number of trailing zero bits of a > 0
BTrailingZeros(a) ==
    LET low == CHOOSE i \in 1..Len(a) : a[i] # 0 /\ \A j \in 1..(i - 1) : a[j] = 0
    IN  LimbBits * (low - 1) + TrailingZerosInt(a[low])

\* quotient and remainder of a by 0 < d < Base, from the top digit down
BDivInt(a, d) ==
    LET from[i \in 1..(Len(a) + 1)] ==
            IF i > Len(a) THEN [q |-> <<>>, r |-> 0]
            ELSE LET high == from[i + 1]
                     t == high.r * Base + a[i]
                 IN  [q |-> <<t \div d>> \o high.q, r |-> t % d]
        res == from[1]
    IN  [q |-> BNorm(res.q), r |-> BOfInt(res.r)]

\* long division, from the top digit of a down: the quotient and remainder of
\* the digits i.. of a by d, whose top digit is at least Base / 2.  The
\* quotient digit is estimated from the top two digits of the running
\* remainder t and the top digit of d, which overestimates it by 2 at most.
BDivLong(a, d) ==
    LET n == Len(d)
        last == MaxInt(Len(a) - n + 1, 0)
        from[i \in 1..(last + 1)] ==
            IF i > last
            THEN [q |-> <<>>, r |-> BNorm(SubSeq(a, i, Len(a)))]
            ELSE LET high == from[i + 1]
                     t == <<a[i]>> \o high.r
                     est == MinInt(Base - 1,
                                   (BLimb(t, n + 1) * Base + BLimb(t, n)) \div d[n])
                     k == IF BCmp(BMulInt(d, est), t) <= 0 THEN est
                          ELSE IF BCmp(BMulInt(d, est - 1), t) <= 0 THEN est - 1
                          ELSE est - 2
                 IN  IF Len(high.r) < n - 1
                     THEN [q |-> <<0>> \o high.q, r |-> BNorm(t)]
                     ELSE [q |-> <<k>> \o high.q, r |-> BSub(t, BMulInt(d, k))]
    IN  from[1]

\* quotient and remainder of a by d > 0
BDivMod(a, d) ==
    IF Len(d) = 1 THEN BDivInt(a, d[1])
    ELSE LET z == LimbBits - BitLenInt(d[Len(d)])
             res == BDivLong(BShl(a, z), BShl(d, z))
         IN  [q |-> BNorm(res.q), r |-> BShr(res.r, z)]

\* 10^p
BPow10(p) ==
    LET pow[i \in 0..p] == IF i = 0 THEN <<1>> ELSE BMulInt(pow[i - 1], 10)
    IN  pow[p]

(***************************************************************************)
(* JavaScript numbers: IEEE 754 binary64.  A finite number is              *)
(* (-1)^s * m * 2^e with the natural number m odd, or m = 0 and e = 0      *)
(* (s = 1 is -0), which makes the record of a number unique.  Every        *)
(* operator computes the exact result and rounds it once, to nearest, ties *)
(* to even, to 53 significant bits (fewer below 2^-1022, infinity from     *)
(* 2^1024 on), as the hardware does.                                       *)
(***************************************************************************)
NaN == [k |-> "nan", s |-> 0, m |-> <<>>, e |-> 0]
Inf(s) == [k |-> "inf", s |-> s, m |-> <<>>, e |-> 0]
DZero(s) == [k |-> "fin", s |-> s, m |-> <<>>, e |-> 0]

\* (-1)^s * m * 2^e for any natural m, exactly (no rounding)
DExact(s, m, e) ==
    IF m = <<>> THEN DZero(s)
    ELSE LET tz == BTrailingZeros(m)
         IN  [k |-> "fin", s |-> s, m |-> BShr(m, tz), e |-> e + tz]

\* (-1)^s * (m * 2^e + a little, if sticky) rounded to a double
DRound(s, m, e, sticky) ==
    IF m = <<>> THEN DZero(s)
    ELSE LET n == BBitLen(m)
             drop == MaxInt(n - 53, -1074 - e)
         IN  IF drop <= 0
             THEN IF n + e > 1024 THEN Inf(s) ELSE DExact(s, m, e)
             ELSE LET kept == BShr(m, drop)
                      low == BLowBits(m, drop)
                      half == BShl(<<1>>, drop - 1)
                      c == BCmp(low, half)
                      up == c > 0 \/ (c = 0 /\ (sticky \/ BBit(kept, 0) = 1))
                      r == IF up THEN BAdd(kept, <<1>>) ELSE kept
                  IN  IF BBitLen(r) + e + drop > 1024 THEN Inf(s)
                      ELSE DExact(s, r, e + drop)

\* the double of an integer of the model (|n| < 2^31)
DI(n) == IF n < 0 THEN DExact(1, BOfInt(-n), 0) ELSE DExact(0, BOfInt(n), 0)

IsZero(a) == a.k = "fin" /\ a.m = <<>>

DNeg(a) == IF a.k = "nan" THEN a ELSE [a EXCEPT !.s = 1 - a.s]
DAbs(a) == IF a.k = "nan" THEN a ELSE [a EXCEPT !.s = 0]

\* a * b
DMul(a, b) ==
    LET s == (a.s + b.s) % 2
    IN  IF a.k = "nan" \/ b.k = "nan" THEN NaN
        ELSE IF a.k = "inf" \/ b.k = "inf"
             THEN IF IsZero(a) \/ IsZero(b) THEN NaN ELSE Inf(s)
        ELSE DRound(s, BMul(a.m, b.m), a.e + b.e, FALSE)

\* (-1)^s * (m / d) * 2^e rounded to a double, for natural numbers m and
\* d > 0: the quotient is taken to 55 bits or more, the remainder is sticky
DRatio(s, m, d, e) ==
    IF d = <<1>> THEN DRound(s, m, e, FALSE)
    ELSE LET shift == MaxInt(55 + BBitLen(d) - BBitLen(m), 0)
             res == BDivMod(BShl(m, shift), d)
         IN  DRound(s, res.q, e - shift, res.r # <<>>)

\* a / b
DDiv(a, b) ==
    LET s == (a.s + b.s) % 2
    IN  IF a.k = "nan" \/ b.k = "nan" THEN NaN
        ELSE IF a.k = "inf" THEN (IF b.k = "inf" THEN NaN ELSE Inf(s))
        ELSE IF b.k = "inf" THEN DZero(s)
        ELSE IF IsZero(b) THEN (IF IsZero(a) THEN NaN ELSE Inf(s))
        ELSE IF IsZero(a) THEN DZero(s)
        ELSE DRatio(s, a.m, b.m, a.e - b.e)

\* the magnitudes |a| and |b| of finite numbers on a common exponent
Aligned(a, b) ==
    LET e == MinInt(a.e, b.e)
    IN  [a |-> BShl(a.m, a.e - e), b |-> BShl(b.m, b.e - e), e |-> e]

\* -1, 0, 1 as |a| < |b|, |a| = |b|, |a| > |b|, for finite numbers
MagCmp(a, b) ==
    IF a.m = <<>> THEN (IF b.m = <<>> THEN 0 ELSE -1)
    ELSE IF b.m = <<>> THEN 1
    ELSE LET ta == BBitLen(a.m) + a.e
             tb == BBitLen(b.m) + b.e
         IN  IF ta > tb THEN 1
             ELSE IF ta < tb THEN -1
             ELSE LET al == Aligned(a, b) IN BCmp(al.a, al.b)

\* a plus a number of sign s whose magnitude is below |a| * 2^-64
DAddTiny(a, s) ==
    LET shift == 57 - BBitLen(a.m)
    IN  IF a.s = s THEN DRound(a.s, BShl(a.m, shift), a.e - shift, TRUE)
        ELSE DRound(a.s, BSub(BShl(a.m, shift), <<1>>), a.e - shift, TRUE)

\* a + b
DAdd(a, b) ==
    IF a.k = "nan" \/ b.k = "nan" THEN NaN
    ELSE IF a.k = "inf"
         THEN IF b.k = "inf" /\ b.s # a.s THEN NaN ELSE a
    ELSE IF b.k = "inf" THEN b
    ELSE IF IsZero(a) /\ IsZero(b) THEN DZero(IF a.s = 1 /\ b.s = 1 THEN 1 ELSE 0)
    ELSE IF IsZero(a) THEN b
    ELSE IF IsZero(b) THEN a
    ELSE IF BBitLen(a.m) + a.e > BBitLen(b.m) + b.e + 64 THEN DAddTiny(a, b.s)
    ELSE IF BBitLen(b.m) + b.e > BBitLen(a.m) + a.e + 64 THEN DAddTiny(b, a.s)
    ELSE LET al == Aligned(a, b)
         IN  IF a.s = b.s THEN DRound(a.s, BAdd(al.a, al.b), al.e, FALSE)
             ELSE LET c == BCmp(al.a, al.b)
                  IN  IF c = 0 THEN DZero(0)
                      ELSE IF c > 0 THEN DRound(a.s, BSub(al.a, al.b), al.e, FALSE)
                      ELSE DRound(b.s, BSub(al.b, al.a), al.e, FALSE)

\* a - b
DSub(a, b) == DAdd(a, DNeg(b))

\* -1, 0, 1 as a < b, a = b, a > b, for numbers that are not NaN (-0 = 0)
DCmp(a, b) ==
    IF IsZero(a) /\ IsZero(b) THEN 0
    ELSE IF a.s # b.s THEN (IF a.s = 1 THEN -1 ELSE 1)
    ELSE LET c == IF a.k = "inf" THEN (IF b.k = "inf" THEN 0 ELSE 1)
                  ELSE IF b.k = "inf" THEN -1
                  ELSE MagCmp(a, b)
         IN  IF a.s = 1 THEN -c ELSE c

\* a < b, a <= b, a > b, a >= b, a === b: false when either is NaN
DLt(a, b) == a.k # "nan" /\ b.k # "nan" /\ DCmp(a, b) < 0
DLe(a, b) == a.k # "nan" /\ b.k # "nan" /\ DCmp(a, b) <= 0
DGt(a, b) == DLt(b, a)
DGe(a, b) == DLe(b, a)
DEq(a, b) == a.k # "nan" /\ b.k # "nan" /\ DCmp(a, b) = 0

\* Math.min(a, b) and Math.max(a, b): NaN if either is, -0 below +0
DMin(a, b) ==
    IF a.k = "nan" \/ b.k = "nan" THEN NaN
    ELSE LET c == DCmp(a, b)
         IN  IF c < 0 THEN a ELSE IF c > 0 THEN b
             ELSE IF a.s = 1 THEN a ELSE b

DMax(a, b) ==
    IF a.k = "nan" \/ b.k = "nan" THEN NaN
    ELSE LET c == DCmp(a, b)
         IN  IF c > 0 THEN a ELSE IF c < 0 THEN b
             ELSE IF a.s = 0 THEN a ELSE b

\* Math.floor
DFloor(a) ==
    IF a.k # "fin" \/ a.e >= 0 THEN a
    ELSE LET q == BShr(a.m, -a.e)
         IN  IF a.s = 0 THEN DExact(0, q, 0) ELSE DExact(1, BAdd(q, <<1>>), 0)

\* Math.ceil
DCeil(a) ==
    IF a.k # "fin" \/ a.e >= 0 THEN a
    ELSE LET q == BShr(a.m, -a.e)
         IN  IF a.s = 0 THEN DExact(0, BAdd(q, <<1>>), 0) ELSE DExact(1, q, 0)

\* the double closest to n / d, for integers of the model: the value of a
\* decimal literal of the source or of an input, such as 0.1 = Num(1, 10)
Num(n, d) == DDiv(DI(n), DI(d))

\* 10 ** p for an integer 0 <= p <= 22, where the power is a double
DPow10(p) == DRound(0, BPow10(p), 0, FALSE)

(***************************************************************************)
(* Decimal strings.  The string of a number is [neg, digits, decimals]:    *)
(* "-1.30" is a minus sign, the digits <<1, 3, 0>>, the last two of them   *)
(* behind the point.  "NaN" and the infinities are [text |-> ...].         *)
(***************************************************************************)
Decimal(neg, digits, decimals) == [neg |-> neg, digits |-> digits, decimals |-> decimals]

Text(str) == [text |-> str]

\* the decimal digits of the natural number a, most significant first, with
\* leading zeros up to a length of width at least
DecDigits(a, width) ==
    LET count == MaxInt((BBitLen(a) * 31) \div 100 + 1, width)
        quot[i \in 0..count] == IF i = 0 THEN a ELSE BDivInt(quot[i - 1], 10).q
        all == [j \in 1..count |-> BToInt(BDivInt(quot[count - j], 10).r)]
        lead == {j \in 1..count : all[j] # 0 \/ j > count - width}
    IN  SubSeq(all, CHOOSE j \in lead : \A l \in lead : j <= l, count)

\* the natural number with these decimal digits
DecValue(digits) ==
    LET upto[i \in 0..Len(digits)] ==
            IF i = 0 THEN <<>>
            ELSE BAdd(BMulInt(upto[i - 1], 10), BOfInt(digits[i]))
    IN  upto[Len(digits)]

\* Number.prototype.toFixed(f) for |x| < 10^21 and 0 <= f <= 100: the sign is
\* that of x < 0, the digits are those of the integer n for which n / 10^f
\* is closest to |x|, the larger n if there are two
toFixed(x, f) ==
    IF x.k = "nan" THEN Text("NaN")
    ELSE IF x.k = "inf" THEN Text(IF x.s = 1 THEN "-Infinity" ELSE "Infinity")
    ELSE LET scaled == BMul(x.m, BPow10(f))
             nearest == IF x.e >= 0 THEN BShl(scaled, x.e)
                        ELSE BShr(BAdd(scaled, BShl(<<1>>, -x.e - 1)), -x.e)
         IN  Decimal(x.s = 1 /\ x.m # <<>>, DecDigits(nearest, f + 1), f)

\* Number.parseFloat of a decimal string: the double closest to its value
ParseFloat(str) ==
    DRatio(IF str.neg THEN 1 ELSE 0, DecValue(str.digits), BPow10(str.decimals), 0)

(***************************************************************************)
(* Quoter state: the configuration given to the constructor and the        *)
(* market slot (null until setMarket).                                     *)
(***************************************************************************)
NoMarket == [isSet |-> FALSE, tickSize |-> DI(1), sizePrecision |-> 0]

\* setMarket: a tick of 1 with sizes to 0.01, a tick of 0.1 with sizes to 0.1
Markets ==
    { [isSet |-> TRUE, tickSize |-> DI(1), sizePrecision |-> 2],
      [isSet |-> TRUE, tickSize |-> Num(1, 10), sizePrecision |-> 1] }

Configs ==
    { [symbol |-> "BTC/USD:USD", spreadBps |-> DI(s), takeProfitBps |-> DI(t),
       closeThresholdUsd |-> DI(c), orderSizeUsd |-> DI(u)] :
         s \in {1000, 20000}, t \in {500, 10000}, c \in {1}, u \in {7, 11} }

NoOrderbook == [given |-> FALSE, bids |-> <<>>, asks |-> <<>>]

\* one side of the book with one level [price, size]
Level(price) == << <<price, DI(1)>> >>

\* no orderbook; books whose best bid is 250, above every quote, or absent
\* and whose best ask is 0.5, below every quote, or absent; a book around
\* every quote
Orderbooks ==
    {NoOrderbook} \cup
    { [given |-> TRUE, bids |-> b, asks |-> a] :
        b \in {<<>>, Level(DI(250))}, a \in {<<>>, Level(Num(1, 2))} } \cup
    { [given |-> TRUE, bids |-> Level(Num(1, 2)), asks |-> Level(DI(250))] }

FairPrices == { DI(k) : k \in (1..MaxFairPrice) \cup {9, 100} }

\* positions: short past the threshold, flat, long at the threshold and past it
Notionals == { DI(k) : k \in {-2, 0, 1, 2} }

(***************************************************************************)
(* generateQuotes, step by step.                                           *)
(***************************************************************************)
\* mutant: the mode latches once entered (a state machine with memory)
isCloseMode_latched(cfg, positionNotional) ==
    \/ DGt(DAbs(positionNotional), cfg.closeThresholdUsd)
    \/ (call.op = "generateQuotes" /\ call.quote.isCloseMode)

\* const isCloseMode = Math.abs(positionNotional) > this.config.closeThresholdUsd
isCloseMode(cfg, positionNotional) ==
    DGt(DAbs(positionNotional), cfg.closeThresholdUsd)

\* const spreadBps = isCloseMode ? takeProfitBps : spreadBps
appliedSpreadBps(cfg, closeMode) ==
    IF closeMode THEN cfg.takeProfitBps ELSE cfg.spreadBps

\* mutant: the bid is not clamped at 0
rawBidPrice_unclamped(fairPrice, spreadBps) ==
    DMul(fairPrice, DSub(DI(1), DDiv(spreadBps, DI(10000))))

\* if (price <= 0) price = 0
clampPrice(price) == IF DLe(price, DI(0)) THEN DI(0) ELSE price

\* fairPrice * (1 - spreadBps / 10000), then "if (bidPrice <= 0) bidPrice = 0"
rawBidPrice(fairPrice, spreadBps) ==
    clampPrice(DMul(fairPrice, DSub(DI(1), DDiv(spreadBps, DI(10000)))))

\* fairPrice * (1 + spreadBps / 10000), then "if (askPrice <= 0) askPrice = 0"
rawAskPrice(fairPrice, spreadBps) ==
    clampPrice(DMul(fairPrice, DAdd(DI(1), DDiv(spreadBps, DI(10000)))))

\* roundToTick, called with metadata only: "if (!this.market) return price"
roundToTick(mkt, price, direction) ==
    IF ~mkt.isSet THEN price
    ELSE IF direction = "down"
         THEN DMul(DFloor(DDiv(price, mkt.tickSize)), mkt.tickSize)
         ELSE DMul(DCeil(DDiv(price, mkt.tickSize)), mkt.tickSize)

\* mutant: the bid is clamped to the best ask itself
postOnlyBid_touching(mkt, bidPrice, orderbook) ==
    IF mkt.isSet /\ orderbook.given /\ Len(orderbook.asks) > 0
    THEN DMin(bidPrice, orderbook.asks[1][1])
    ELSE bidPrice

\* post-only check of the bid against the best ask (asks[0][0]), made with
\* metadata and an orderbook
postOnlyBid(mkt, bidPrice, orderbook) ==
    IF mkt.isSet /\ orderbook.given /\ Len(orderbook.asks) > 0
    THEN IF DGe(bidPrice, orderbook.asks[1][1])
         THEN DMin(bidPrice, DSub(orderbook.asks[1][1], mkt.tickSize))
         ELSE bidPrice
    ELSE bidPrice

\* post-only check of the ask against the best bid (bids[0][0]), made with
\* metadata and an orderbook
postOnlyAsk(mkt, askPrice, orderbook) ==
    IF mkt.isSet /\ orderbook.given /\ Len(orderbook.bids) > 0
    THEN IF DLe(askPrice, orderbook.bids[1][1])
         THEN DMax(askPrice, DAdd(orderbook.bids[1][1], mkt.tickSize))
         ELSE askPrice
    ELSE askPrice

\* bidPrice > 0 ? orderSizeUsd / bidPrice : 0   (the same expression sizes the ask)
sizeFor(cfg, price) ==
    IF DGt(price, DI(0)) THEN DDiv(cfg.orderSizeUsd, price) ELSE DI(0)

\* mutant: the bid size is zeroed for a short position
closeModeBidSize_swapped(closeMode, positionNotional, bidSize) ==
    IF closeMode /\ DLt(positionNotional, DI(0)) THEN DI(0) ELSE bidSize

\* close mode: a long position zeroes the bid size
closeModeBidSize(closeMode, positionNotional, bidSize) ==
    IF closeMode /\ DGt(positionNotional, DI(0)) THEN DI(0) ELSE bidSize

\* mutant: the ask size is never zeroed
closeModeAskSize_kept(closeMode, positionNotional, askSize) == askSize

\* close mode: any other position zeroes the ask size
closeModeAskSize(closeMode, positionNotional, askSize) ==
    IF closeMode /\ ~DGt(positionNotional, DI(0)) THEN DI(0) ELSE askSize

\* mutant: the size is rounded down
roundSize_floor(mkt, size) ==
    IF ~mkt.isSet THEN size
    ELSE LET multiplier == DPow10(mkt.sizePrecision)
         IN  DDiv(DFloor(DMul(size, multiplier)), multiplier)

roundSize(mkt, size) ==
    IF ~mkt.isSet THEN size
    ELSE LET multiplier == DPow10(mkt.sizePrecision)
         IN  DDiv(DCeil(DMul(size, multiplier)), multiplier)

\* the sizes for the final prices, and the Quote returned; roundSize is
\* called with metadata only and returns the size as it is without
sizedQuote(cfg, mkt, fairPrice, positionNotional, closeMode, spreadBps, bidPrice, askPrice) ==
    [bidPrice |-> bidPrice,
     askPrice |-> askPrice,
     bidSize |-> roundSize(mkt, closeModeBidSize(closeMode, positionNotional,
                                                 sizeFor(cfg, bidPrice))),
     askSize |-> roundSize(mkt, closeModeAskSize(closeMode, positionNotional,
                                                 sizeFor(cfg, askPrice))),
     fairPrice |-> fairPrice,
     spreadBps |-> spreadBps,
     isCloseMode |-> closeMode]

generateQuotes(cfg, mkt, fairPrice, positionNotional, orderbook) ==
    LET closeMode == isCloseMode(cfg, positionNotional)
        spreadBps == appliedSpreadBps(cfg, closeMode)
        bidPrice == postOnlyBid(mkt,
                                roundToTick(mkt, rawBidPrice(fairPrice, spreadBps), "down"),
                                orderbook)
        askPrice == postOnlyAsk(mkt,
                                roundToTick(mkt, rawAskPrice(fairPrice, spreadBps), "up"),
                                orderbook)
    IN  sizedQuote(cfg, mkt, fairPrice, positionNotional, closeMode, spreadBps,
                   bidPrice, askPrice)

(***************************************************************************)
(* quoteToOrders.  reduceOnlyArg is the optional argument: <<>> when the   *)
(* caller leaves it out (default false), <<b>> when it passes b.           *)
(***************************************************************************)
orderRequest(cfg, side, price, size, reduceOnly) ==
    [symbol |-> cfg.symbol, side |-> side, type |-> "limit", price |-> price,
     size |-> size, postOnly |-> TRUE, reduceOnly |-> reduceOnly]

\* mutant: the sell request is pushed first
quoteToOrders_sellFirst(cfg, quote, reduceOnlyArg) ==
    LET reduceOnly == IF reduceOnlyArg = <<>> THEN FALSE ELSE reduceOnlyArg[1]
        buys == IF DGt(quote.bidSize, DI(0))
                THEN << orderRequest(cfg, "buy", quote.bidPrice, quote.bidSize,
                                     reduceOnly \/ quote.isCloseMode) >>
                ELSE <<>>
        sells == IF DGt(quote.askSize, DI(0))
                 THEN << orderRequest(cfg, "sell", quote.askPrice, quote.askSize,
                                      reduceOnly \/ quote.isCloseMode) >>
                 ELSE <<>>
    IN  sells \o buys

\* mutant: reduceOnly is the argument alone
quoteToOrders_argOnly(cfg, quote, reduceOnlyArg) ==
    LET reduceOnly == IF reduceOnlyArg = <<>> THEN FALSE ELSE reduceOnlyArg[1]
        buys == IF DGt(quote.bidSize, DI(0))
                THEN << orderRequest(cfg, "buy", quote.bidPrice, quote.bidSize,
                                     reduceOnly) >>
                ELSE <<>>
        sells == IF DGt(quote.askSize, DI(0))
                 THEN << orderRequest(cfg, "sell", quote.askPrice, quote.askSize,
                                      reduceOnly) >>
                 ELSE <<>>
    IN  buys \o sells

quoteToOrders(cfg, quote, reduceOnlyArg) ==
    LET reduceOnly == IF reduceOnlyArg = <<>> THEN FALSE ELSE reduceOnlyArg[1]
        buys == IF DGt(quote.bidSize, DI(0))
                THEN << orderRequest(cfg, "buy", quote.bidPrice, quote.bidSize,
                                     reduceOnly \/ quote.isCloseMode) >>
                ELSE <<>>
        sells == IF DGt(quote.askSize, DI(0))
                 THEN << orderRequest(cfg, "sell", quote.askPrice, quote.askSize,
                                      reduceOnly \/ quote.isCloseMode) >>
                 ELSE <<>>
    IN  buys \o sells

(***************************************************************************)
(* isOrderStale.  maxDeviationArg is the optional argument: <<>> when left *)
(* out (default 50), <<m>> when the caller passes m.                       *)
(***************************************************************************)
DefaultMaxDeviationBps == 50

\* Math.abs(orderPrice - fairPrice) / fairPrice * 10000 > maxDeviationBps
isOrderStale(orderPrice, orderSide, fairPrice, maxDeviationArg) ==
    LET maxDeviationBps == IF maxDeviationArg = <<>>
                           THEN DI(DefaultMaxDeviationBps) ELSE maxDeviationArg[1]
        deviation == DDiv(DAbs(DSub(orderPrice, fairPrice)), fairPrice)
        deviationBps == DMul(deviation, DI(10000))
    IN  DGt(deviationBps, maxDeviationBps)

StaleFairPrices == { DI(100 * k) : k \in 1..MaxFairPrice } \cup { DI(10000) }

\* orderPrice - fairPrice: halves around 0, and the offsets that are 50 and
\* 51 bps of a fair price of 10000
StaleOffsets ==
    { Num(k, 2) : k \in (-MaxStaleHalf)..MaxStaleHalf } \cup { DI(k) : k \in {-51, -50, 50, 51} }

MaxDeviationArgs == { <<>>, <<DI(50)>>, <<DI(51)>>, <<DI(100)>> }

Sides == {"buy", "sell"}

(***************************************************************************)
(* Order lifecycle: values.                                                *)
(*                                                                         *)
(* A symbol is the sequence of its parts between "/" ("BTC/USD:USD" is     *)
(* <<"BTC", "USD:USD">>, the empty string is <<"">>), so                   *)
(* symbol.split("/")[0] is its first element.                              *)
(* An error message is the sequence of its fragments.  An optional value   *)
(* is <<>> (undefined) or <<v>>.                                           *)
(***************************************************************************)
\* the exchange returns at most MaxOpenOrders open orders
MaxOpenOrders == 2
\* a cancel response carries at most MaxStatuses per-order statuses
MaxStatuses == 2

Split0(symbol) == symbol[1]

\* if (symbol), for the optional argument: undefined and "" are falsy
Truthy(symbolArg) == symbolArg # <<>> /\ symbolArg[1] # <<"">>

\* symbol.split("/")[0] || symbol, as the parts of that string
filterBase(symbol) == IF Split0(symbol) # "" THEN <<Split0(symbol)>> ELSE symbol

\* Number.parseInt(s, 10) of a decimal id string
ParseInt(str) == CHOOSE n \in 0..99 : ToString(n) = str

\* array.find(pred) is the first element of array.filter(pred), or undefined
First(seq) == IF Len(seq) = 0 THEN <<>> ELSE <<seq[1]>>

\* str.includes(needle), on fragments
Includes(msg, needle) ==
    \E i \in 1..(Len(msg) - Len(needle) + 1) :
        SubSeq(msg, i, i + Len(needle) - 1) = needle

BtcMarket ==
    [id |-> "0", symbol |-> <<"BTC", "USD:USD">>, base |-> "BTC",
     pricePrecision |-> 1, sizePrecision |-> 2]

EthMarket ==
    [id |-> "1", symbol |-> <<"ETH", "USDC:USDC">>, base |-> "ETH",
     pricePrecision |-> 2, sizePrecision |-> 1]

\* what getMarkets can return: no market, BTC alone, BTC and ETH
MarketLists == { <<>>, <<BtcMarket>>, <<BtcMarket, EthMarket>> }

NativeOrder(coin, oid, side, sz, origSz) ==
    [coin |-> coin, oid |-> oid, cloid |-> <<>>, side |-> side,
     limitPx |-> Decimal(FALSE, <<1, 5>>, 1),
     sz |-> sz, origSz |-> origSz, timestamp |-> oid, reduceOnly |-> FALSE]

\* the open orders the exchange may hold, with sz and origSz "0.4" of "1.0",
\* "2.0" of "2.0", "5" of "7", "0.2" of "0.9"; DOGE never has a market
NativeOrders ==
    { NativeOrder("BTC", 1, "B", Decimal(FALSE, <<0, 4>>, 1), Decimal(FALSE, <<1, 0>>, 1)),
      NativeOrder("ETH", 2, "A", Decimal(FALSE, <<2, 0>>, 1), Decimal(FALSE, <<2, 0>>, 1)),
      NativeOrder("DOGE", 3, "B", Decimal(FALSE, <<5>>, 0), Decimal(FALSE, <<7>>, 0)),
      NativeOrder("BTC", 4, "A", Decimal(FALSE, <<0, 2>>, 1), Decimal(FALSE, <<0, 9>>, 1)) }

\* sequences of distinct open orders
OpenOrderLists ==
    { q \in UNION { [1..k -> NativeOrders] : k \in 0..MaxOpenOrders } :
        \A i, j \in 1..Len(q) : i # j => q[i] # q[j] }


(***************************************************************************)
(* Exchange responses.  A status is a JavaScript value: a string, or an    *)
(* object with some of the keys error, resting, filled.                    *)
(***************************************************************************)
GoneMessage == <<"Order was never placed, ", "already canceled, or filled", ".">>
OtherMessage == <<"Insufficient margin">>
RestingRecord == [oid |-> 7, cloid |-> <<"0xa">>]
FilledRecord == [oid |-> 8, cloid |-> <<>>]

StrStatus(str) == [t |-> "string", s |-> str, keys |-> {}, error |-> <<>>]
ObjStatus(keys, message) ==
    [t |-> "object", s |-> "", keys |-> keys, error |-> message]

\* statuses[0] of an order response
PlaceStatuses ==
    { StrStatus(x) : x \in {"", "waitingForFill", "waitingForTrigger", "success"} }
    \cup { ObjStatus(k, OtherMessage) : k \in SUBSET {"error", "resting", "filled"} }

\* the per-order statuses of a cancel response
CancelStatuses ==
    { StrStatus("success"), ObjStatus({"error"}, GoneMessage),
      ObjStatus({"error"}, OtherMessage) }

StatusArrays(S, n) == UNION { [1..k -> S] : k \in 0..n }

\* a response: returned with its statuses array, or thrown, with or without
\* a statuses array at error.response.response.data.statuses
Returned(statuses) == [thrown |-> FALSE, statuses |-> <<statuses>>]
ThrownBare == [thrown |-> TRUE, statuses |-> <<>>]
ThrownWith(statuses) == [thrown |-> TRUE, statuses |-> <<statuses>>]

OrderResponses ==
    {ThrownBare} \cup { Returned(a) : a \in StatusArrays(PlaceStatuses, 1) }

CancelResponses ==
    {ThrownBare}
    \cup { Returned(a) : a \in StatusArrays(CancelStatuses, MaxStatuses) }
    \cup { ThrownWith(a) : a \in StatusArrays(CancelStatuses, MaxStatuses) }

Pending == [kind |-> "pending"]
Return(v) == [kind |-> "return", value |-> v]
Throw(type, message) == [kind |-> "throw", error |-> [type |-> type, message |-> message]]
\* a gateway call threw; the error names the call
GatewayFailure(callName) == Throw("GatewayError", <<callName>>)

(***************************************************************************)
(* Order lifecycle: the synchronous parts of the four functions.           *)
(***************************************************************************)
\* mutant: an unknown symbol falls back to the first market
findMarketForSymbol_fallback(markets, symbol) ==
    IF Len(markets) > 0 THEN <<markets[1]>> ELSE <<>>

\* markets.find((m) => m.symbol === symbol || m.base === symbol.split("/")[0])
findMarketForSymbol(markets, symbol) ==
    First(SelectSeq(markets, LAMBDA m : m.symbol = symbol \/ m.base = Split0(symbol)))

\* markets.find((m) => m.base === base)
findMarketByBase(markets, base) ==
    First(SelectSeq(markets, LAMBDA m : m.base = base))

\* mutant: filled and remaining are exchanged
toOrder_swapped(markets, o) ==
    LET mkt == findMarketByBase(markets, o.coin)
        origSize == ParseFloat(o.origSz)
        currentSize == ParseFloat(o.sz)
    IN  [id |-> ToString(o.oid),
         clientId |-> o.cloid,
         symbol |-> IF mkt # <<>> THEN mkt[1].symbol ELSE <<o.coin, "USD:USD">>,
         type |-> "limit",
         side |-> IF o.side = "B" THEN "buy" ELSE "sell",
         price |-> ParseFloat(o.limitPx),
         size |-> origSize,
         filled |-> currentSize,
         remaining |-> DSub(origSize, currentSize),
         status |-> "open",
         timestamp |-> o.timestamp,
         reduceOnly |-> o.reduceOnly,
         postOnly |-> <<>>,
         raw |-> o]

\* getOpenOrders: one native record to an Order
toOrder(markets, o) ==
    LET mkt == findMarketByBase(markets, o.coin)
        fullSymbol == IF mkt # <<>> THEN mkt[1].symbol ELSE <<o.coin, "USD:USD">>
        origSize == ParseFloat(o.origSz)
        currentSize == ParseFloat(o.sz)
    IN  [id |-> ToString(o.oid),
         clientId |-> o.cloid,
         symbol |-> fullSymbol,
         type |-> "limit",
         side |-> IF o.side = "B" THEN "buy" ELSE "sell",
         price |-> ParseFloat(o.limitPx),
         size |-> origSize,
         filled |-> DSub(origSize, currentSize),
         remaining |-> currentSize,
         status |-> "open",
         timestamp |-> o.timestamp,
         reduceOnly |-> o.reduceOnly,
         postOnly |-> <<>>,
         raw |-> o]

\* mutant: records whose coin has no market are dropped
mapOpenOrders_dropping(response, markets, symbolArg) ==
    LET orders == IF Truthy(symbolArg)
                  THEN SelectSeq(response, LAMBDA o : <<o.coin>> = filterBase(symbolArg[1]))
                  ELSE response
        known == SelectSeq(orders, LAMBDA o : findMarketByBase(markets, o.coin) # <<>>)
    IN  [i \in 1..Len(known) |-> toOrder(markets, known[i])]

\* getOpenOrders: filter by the symbol's base if a symbol is given, then map
mapOpenOrders(response, markets, symbolArg) ==
    LET orders == IF Truthy(symbolArg)
                  THEN SelectSeq(response, LAMBDA o : <<o.coin>> = filterBase(symbolArg[1]))
                  ELSE response
    IN  [i \in 1..Len(orders) |-> toOrder(markets, orders[i])]

\* placeOrder: the parameters of the exchange order request
orderParams(mkt, order) ==
    [a |-> ParseInt(mkt.id),
     b |-> order.side = "buy",
     p |-> toFixed(order.price, mkt.pricePrecision),
     s |-> toFixed(order.size, mkt.sizePrecision),
     r |-> IF order.reduceOnly = <<>> THEN FALSE ELSE order.reduceOnly[1],
     tif |-> IF order.postOnly THEN "Alo" ELSE "Gtc",
     c |-> order.clientId,
     grouping |-> "na"]

\* !status
Falsy(statuses) ==
    \/ Len(statuses) = 0
    \/ (statuses[1].t = "string" /\ statuses[1].s = "")

orderResult(record, orderStatus, response) ==
    [orderId |-> ToString(record.oid), clientId |-> record.cloid,
     status |-> orderStatus, raw |-> response]

\* mutant: resting and filled are looked at before error
classifyOrderResponse_errorLast(response) ==
    IF response.thrown THEN GatewayFailure("order")
    ELSE LET statuses == response.statuses[1]
             status == statuses[1]
         IN  IF Falsy(statuses) THEN Throw("NoOrderStatus", <<>>)
             ELSE IF status.t = "string" THEN Throw("UnknownStatus", <<>>)
             ELSE IF "resting" \in status.keys
                  THEN Return(orderResult(RestingRecord, "open", response))
             ELSE IF "filled" \in status.keys
                  THEN Return(orderResult(FilledRecord, "closed", response))
             ELSE Throw("OrderRejected", status.error)

\* placeOrder after exchange.order: the first status decides
classifyOrderResponse(response) ==
    IF response.thrown THEN GatewayFailure("order")
    ELSE LET statuses == response.statuses[1]
             status == statuses[1]
         IN  IF Falsy(statuses) THEN Throw("NoOrderStatus", <<>>)
             ELSE IF status.t = "string"
                  THEN IF status.s = "waitingForFill"
                       THEN Throw("WaitingForFill", <<>>)
                       ELSE IF status.s = "waitingForTrigger"
                            THEN Throw("WaitingForTrigger", <<>>)
                            ELSE Throw("UnknownStatus", <<>>)
             ELSE IF "error" \in status.keys
                  THEN Throw("OrderRejected", status.error)
             ELSE IF "resting" \in status.keys
                  THEN Return(orderResult(RestingRecord, "open", response))
             ELSE IF "filled" \in status.keys
                  THEN Return(orderResult(FilledRecord, "closed", response))
             ELSE Throw("UnknownStatus", <<>>)


\* cancelOrder with a symbol: the asset id of the symbol's market
cancelTargetBySymbol(markets, symbol) ==
    LET mkt == findMarketForSymbol(markets, symbol)
    IN  IF mkt = <<>> THEN Throw("MarketNotFound", <<>>)
        ELSE Return(ParseInt(mkt[1].id))

\* mutant: an order that is not open is cancelled on the first market
cancelTargetByOrders_guess(markets, openOrders, orderId) ==
    LET order == First(SelectSeq(openOrders, LAMBDA o : o.id = orderId))
        mkt == IF order = <<>> THEN First(markets)
               ELSE findMarketByBase(markets, Split0(order[1].symbol))
    IN  IF mkt = <<>> THEN Throw("MarketNotFound", <<>>)
        ELSE Return(ParseInt(mkt[1].id))

\* cancelOrder without a symbol: the asset id of the open order's market
cancelTargetByOrders(markets, openOrders, orderId) ==
    LET order == First(SelectSeq(openOrders, LAMBDA o : o.id = orderId))
    IN  IF order = <<>> THEN Throw("OrderNotFound", <<>>)
        ELSE LET mkt == findMarketByBase(markets, Split0(order[1].symbol))
             IN  IF mkt = <<>> THEN Throw("MarketNotFound", <<>>)
                 ELSE Return(ParseInt(mkt[1].id))

\* mutant: a response without a status counts as cancelled
classifyCancelResponse_lenient(response) ==
    IF response.thrown THEN GatewayFailure("cancel")
    ELSE LET statuses == response.statuses[1]
         IN  IF Falsy(statuses) THEN Return(<<>>)
             ELSE IF statuses[1] # StrStatus("success")
                  THEN Throw("CancelFailed", statuses[1].error)
                  ELSE Return(<<>>)

\* cancelOrder after exchange.cancel: the first status must be "success"
classifyCancelResponse(response) ==
    IF response.thrown THEN GatewayFailure("cancel")
    ELSE LET statuses == response.statuses[1]
         IN  IF Falsy(statuses) THEN Throw("NoCancelStatus", <<>>)
             ELSE IF statuses[1] # StrStatus("success")
                  THEN Throw("CancelFailed", statuses[1].error)
                  ELSE Return(<<>>)

\* { a: assetId, o: orderIdNum } of an order whose market is known
cancelFor(markets, order) ==
    [a |-> ParseInt(findMarketByBase(markets, Split0(order.symbol))[1].id),
     o |-> ParseInt(order.id)]

\* mutant: orders whose market is unknown are left out of the batch
buildCancels_skipping(markets, openOrders) ==
    LET known == SelectSeq(openOrders,
                           LAMBDA o : findMarketByBase(markets, Split0(o.symbol)) # <<>>)
    IN  Return([i \in 1..Len(known) |-> cancelFor(markets, known[i])])

\* mutant: the batch is built back to front
buildCancels_reversed(markets, openOrders) ==
    LET n == Len(openOrders)
        unknown == { i \in 1..n :
                       findMarketByBase(markets, Split0(openOrders[i].symbol)) = <<>> }
    IN  IF unknown # {} THEN Throw("MarketNotFound", <<>>)
        ELSE Return([i \in 1..n |-> cancelFor(markets, openOrders[n + 1 - i])])

\* cancelAllOrders: one {a, o} per open order, or the first unknown market throws
buildCancels(markets, openOrders) ==
    LET unknown == { i \in 1..Len(openOrders) :
                       findMarketByBase(markets, Split0(openOrders[i].symbol)) = <<>> }
    IN  IF unknown # {} THEN Throw("MarketNotFound", <<>>)
        ELSE Return([i \in 1..Len(openOrders) |-> cancelFor(markets, openOrders[i])])

\* mutant: a thrown response without statuses is taken as an empty batch
unwrapStatuses_swallow(response) ==
    IF response.statuses # <<>> THEN Return(response.statuses[1])
    ELSE Return(<<>>)

\* mutant: a thrown response is always rethrown
unwrapStatuses_rethrow(response) ==
    IF ~response.thrown THEN Return(response.statuses[1])
    ELSE GatewayFailure("cancel")

\* cancelAllOrders: the statuses of a returned response, or those a thrown
\* error carries; a thrown error that carries none is rethrown
unwrapStatuses(response) ==
    IF ~response.thrown THEN Return(response.statuses[1])
    ELSE IF response.statuses # <<>> THEN Return(response.statuses[1])
    ELSE GatewayFailure("cancel")

\* mutant: only "success" counts
isCancelled_strict(status) == status = StrStatus("success")

\* "success", or an error that includes "already canceled, or filled"
isCancelled(status) ==
    \/ status = StrStatus("success")
    \/ (status.error # <<>> /\ Includes(status.error, <<"already canceled, or filled">>))

warning(openOrders, index, status) ==
    [id |-> IF index <= Len(openOrders) THEN <<openOrders[index].id>> ELSE <<>>,
     error |-> status.error]

\* mutant: the first failed status ends the loop
RECURSIVE tally_stopping(_, _, _, _)
tally_stopping(openOrders, statuses, index, acc) ==
    IF index > Len(statuses) THEN acc
    ELSE IF isCancelled(statuses[index])
         THEN tally_stopping(openOrders, statuses, index + 1,
                             [acc EXCEPT !.successCount = @ + 1])
         ELSE [acc EXCEPT !.failCount = @ + 1,
                          !.warnings = Append(@, warning(openOrders, index, statuses[index]))]

\* statuses.forEach((cancelStatus, index) => ...), from position index on
RECURSIVE tally(_, _, _, _)
tally(openOrders, statuses, index, acc) ==
    IF index > Len(statuses) THEN acc
    ELSE IF isCancelled(statuses[index])
         THEN tally(openOrders, statuses, index + 1,
                    [acc EXCEPT !.successCount = @ + 1])
         ELSE tally(openOrders, statuses, index + 1,
                    [acc EXCEPT !.failCount = @ + 1,
                                !.warnings = Append(@, warning(openOrders, index,
                                                               statuses[index]))])

NoCounts == [successCount |-> 0, failCount |-> 0, warnings |-> <<>>]

\* cancelAllOrders from the cancel response on: its outcome and its summary
cancelAllOutcome(openOrders, response) ==
    LET statuses == unwrapStatuses(response)
    IN  IF statuses.kind = "throw"
        THEN [outcome |-> statuses, successCount |-> 0, failCount |-> 0, warnings |-> <<>>]
        ELSE LET counts == tally(openOrders, statuses.value, 1, NoCounts)
             IN  [outcome |-> Return(<<>>), successCount |-> counts.successCount,
                  failCount |-> counts.failCount, warnings |-> counts.warnings]

(***************************************************************************)
(* Order lifecycle: invocations.  inv is the invocation in progress: the   *)
(* function, its arguments, the await it stands at (pc), the gateway calls *)
(* it has issued so far (gw), its locals and its outcome.  cancelOrder and *)
(* cancelAllOrders call getOpenOrders: inner is the outcome of that call,  *)
(* and at pc "getOpenOrders" the caller waits to be resumed with it.       *)
(***************************************************************************)
NoResponse == [thrown |-> FALSE, statuses |-> <<>>]

NewInv(fn, order, orderId, symbolArg, pc, firstCall) ==
    [fn |-> fn, order |-> order, orderId |-> orderId, symbolArg |-> symbolArg,
     pc |-> pc, gw |-> << [call |-> firstCall, arg |-> <<>>] >>, failed |-> "",
     inner |-> Pending,
     openOrders |-> <<>>, response |-> NoResponse, outcome |-> Pending,
     successCount |-> 0, failCount |-> 0, warnings |-> <<>>]

Idle ==
    [fn |-> "none", order |-> <<>>, orderId |-> <<>>, symbolArg |-> <<>>,
     pc |-> "done", gw |-> <<>>, failed |-> "",
     inner |-> Pending,
     openOrders |-> <<>>, response |-> NoResponse, outcome |-> Pending,
     successCount |-> 0, failCount |-> 0, warnings |-> <<>>]

\* the invocation ends with this outcome
End(i, outcome) == [i EXCEPT !.pc = "done", !.outcome = outcome]

\* mutant: a rejected gateway call is issued again
Fail_retry(i, callName) ==
    [i EXCEPT !.failed = callName,
              !.gw = Append(@, [call |-> callName, arg |-> <<>>])]

\* the awaited gateway call rejected: the invocation ends with its error
Fail(i, callName) == [End(i, GatewayFailure(callName)) EXCEPT !.failed = callName]

\* getOpenOrders ends with this outcome: that ends the invocation when it
\* was called directly, and else settles the promise its caller awaits
EndInner(i, outcome) ==
    IF i.fn = "getOpenOrders" THEN End(i, outcome)
    ELSE [i EXCEPT !.pc = "getOpenOrders", !.inner = outcome]

\* a gateway call awaited by getOpenOrders rejected: getOpenOrders logs and
\* rethrows
FailInner(i, callName) ==
    [EndInner(i, GatewayFailure(callName)) EXCEPT !.failed = callName]

\* the request was answered or rejected (failed names a rejected request)
Settle(i, callName, response) ==
    [i EXCEPT !.response = response,
              !.failed = IF response.thrown THEN callName ELSE ""]

\* the invocation issues a gateway call and awaits it
Await(i, pc, callName, arg) ==
    [i EXCEPT !.pc = pc, !.gw = Append(@, [call |-> callName, arg |-> arg])]

OrderSymbols == { <<"BTC", "USD:USD">>, <<"BTC", "USDT">>, <<"DOGE", "USD:USD">> }

\* prices 1.25 and -1.25, a size of 1/3
OrderRequests ==
    { [symbol |-> sym, side |-> sd, type |-> "limit",
       price |-> px, size |-> Num(1, 3), postOnly |-> po,
       reduceOnly |-> IF sd = "buy" THEN <<>> ELSE <<TRUE>>, clientId |-> <<>>] :
         sym \in OrderSymbols, sd \in Sides, po \in BOOLEAN,
         px \in {Num(5, 4), Num(-5, 4)} }

OrderIds == { "1", "2", "3", "9" }

\* undefined, "BTC/USD:USD", "ETH", "DOGE/USD:USD", "" and "/BTC"
SymbolArgs ==
    { <<>>, << <<"BTC", "USD:USD">> >>, << <<"ETH">> >>, << <<"DOGE", "USD:USD">> >>,
      << <<"">> >>, << <<"", "BTC">> >> }

(***************************************************************************)
(* Scanner: values.  A MarketData keeps the fields processMarkets reads:   *)
(* volume24h and spreadBps (<<>> is null), beside the symbol.  The command *)
(* line options are fixed when the process starts.                         *)
(***************************************************************************)
\* fetches started by the timer that can be pending at once in the model
MaxInFlight == 2

MarketData(symbol, volume24h, spreadBps) ==
    [symbol |-> symbol, volume24h |-> volume24h, spreadBps |-> spreadBps]

BtcData == MarketData("BTC", 9, <<2>>)
EthData == MarketData("ETH", 4, <<5>>)
HypeData == MarketData("HYPE", 6, <<>>)

\* what fetchMarketData can resolve with
MarketFeeds == { <<>>, <<EthData, BtcData>>, <<EthData, HypeData, BtcData>> }

\* fetchMarketData resolves with a list or rejects
FetchOutcomes ==
    { [ok |-> FALSE, markets |-> <<>>] } \cup { [ok |-> TRUE, markets |-> m] : m \in MarketFeeds }

\* --limit: the default, limits below the length of a list, 0 and -1
Limits == {50, 2, 1, 0, -1}

\* --sort, --min-volume, --min-spread, --limit
ScannerOptions ==
    { [sortField |-> f, minVolume |-> v, minSpread |-> sp, limit |-> l] :
        f \in {"volume", "spread"}, v \in {0, 5}, sp \in {0, 3}, l \in Limits }

\* the comparator handed to filtered.sort
compareMarkets(sortField, a, b) ==
    IF sortField = "spread"
    THEN IF a.spreadBps = <<>> THEN 1
         ELSE IF b.spreadBps = <<>> THEN -1
         ELSE b.spreadBps[1] - a.spreadBps[1]
    ELSE b.volume24h - a.volume24h

\* m put into a sorted list, behind every element it does not precede
insertMarket(sortField, sorted, m) ==
    LET later == { i \in 1..Len(sorted) : compareMarkets(sortField, m, sorted[i]) < 0 }
        at == IF later = {} THEN Len(sorted) + 1
              ELSE CHOOSE i \in later : \A j \in later : i <= j
    IN  SubSeq(sorted, 1, at - 1) \o <<m>> \o SubSeq(sorted, at, Len(sorted))

\* Array.prototype.sort with that comparator (stable)
RECURSIVE sortMarkets(_, _)
sortMarkets(sortField, markets) ==
    IF Len(markets) = 0 THEN <<>>
    ELSE insertMarket(sortField,
                      sortMarkets(sortField, SubSeq(markets, 1, Len(markets) - 1)),
                      markets[Len(markets)])

\* processMarkets: filter by volume and spread, then sort
processMarkets(options, markets) ==
    LET byVolume == SelectSeq(markets, LAMBDA m : m.volume24h >= options.minVolume)
        filtered == IF options.minSpread > 0
                    THEN SelectSeq(byVolume,
                                   LAMBDA m : m.spreadBps # <<>>
                                              /\ m.spreadBps[1] >= options.minSpread)
                    ELSE byVolume
    IN  sortMarkets(options.sortField, filtered)

\* main() before its first await
NewScanner(options) ==
    [options |-> options, phase |-> "initial", exitCode |-> <<>>,
     markets |-> <<>>, processed |-> <<>>, isFetching |-> FALSE,
     timer |-> FALSE, inFlight |-> 0, lastTick |-> "none", lastFetch |-> "none",
     rendered |-> <<>>]

\* markets.slice(0, limit): a negative limit counts from the end
sliceTo(markets, limit) ==
    LET end == IF limit < 0 THEN Len(markets) + limit ELSE limit
    IN  SubSeq(markets, 1, IF end > Len(markets) THEN Len(markets) ELSE end)

\* render(markets, isFetching): what the screen shows, the rows and the
\* header's "Showing: x of y"
Rendered(options, markets, isFetching) ==
    << [markets |-> sliceTo(markets, options.limit),
        refreshing |-> isFetching,
        showing |-> IF Len(markets) < options.limit THEN Len(markets) ELSE options.limit,
        total |-> Len(markets)] >>

(***************************************************************************)
(* HyperpsPriceFeed: values.  null is 0 for pollInterval, lastPrice and    *)
(* lastTimestamp; timers holds the interval timers that are set and not    *)
(* cleared, whether or not the object still refers to them.  connecting    *)
(* counts the connect() calls whose initial fetch is pending, ready those  *)
(* whose fetch has ended and that wait to be resumed, failing those whose  *)
(* fetch has rejected and that wait to reject.                             *)
(***************************************************************************)
\* connect() calls that get past the connected check
MaxConnects == 3
\* poll fetches that can be pending at once
MaxPolls == 2
\* price updates; Date.now() is the number of the update
MaxUpdates == 3

OraclePrices == {1, 2}

\* info.metaAndAssetCtxs() resolves with a usable price, resolves without
\* one (asset or context missing, price NaN or <= 0), or rejects
OracleResults ==
    { [kind |-> "price", price |-> p] : p \in OraclePrices }
        \cup { [kind |-> "none", price |-> 0], [kind |-> "throw", price |-> 0] }

\* what the callback given to the constructor does when it is called: it
\* returns, it throws, or it calls disconnect() and returns
CallbackOutcomes == {"return", "throw", "disconnect"}

\* new HyperpsPriceFeed(symbol, callback)
NewFeed ==
    [info |-> FALSE, pollInterval |-> 0, connected |-> FALSE,
     lastPrice |-> 0, lastTimestamp |-> 0,
     timers |-> {}, started |-> 0, passes |-> 0,
     connecting |-> 0, ready |-> 0, failing |-> 0,
     polling |-> 0, callbacks |-> 0,
     lastCall |-> "new", lastPoll |-> "none", lastFetch |-> "none"]

\* disconnect(): clears the timer pollInterval refers to, drops the client
disconnect(f) ==
    [f EXCEPT !.timers = @ \ {f.pollInterval},
              !.pollInterval = 0,
              !.info = FALSE,
              !.connected = FALSE,
              !.lastCall = "disconnect"]

\* fetchOraclePrice after its await: a usable price is stored and handed to
\* the callback; lastFetch tells how the fetch ends
applyOracleResult(f, result, callback) ==
    IF result.kind = "price"
    THEN LET stored == [f EXCEPT !.lastPrice = result.price,
                                 !.lastTimestamp = f.callbacks + 1,
                                 !.callbacks = @ + 1]
         IN  IF callback = "throw" THEN [stored EXCEPT !.lastFetch = "rejected"]
             ELSE IF callback = "disconnect"
                  THEN [disconnect(stored) EXCEPT !.lastFetch = "fulfilled"]
             ELSE [stored EXCEPT !.lastFetch = "fulfilled"]
    ELSE [f EXCEPT !.lastFetch = IF result.kind = "throw" THEN "rejected"
                                 ELSE "fulfilled"]

(***************************************************************************)
(* The Quoter object: constructor, then any sequence of calls.  call is    *)
(* the latest call with its arguments and its return value.                *)
(***************************************************************************)
Init ==
    /\ config \in Configs
    /\ market = NoMarket
    /\ call = [op |-> "new"]
    /\ exMarkets = <<>>
    /\ exOpen = <<>>
    /\ inv = Idle
    /\ scan = NewScanner(CHOOSE o \in ScannerOptions : TRUE)
    /\ feed = NewFeed

SetMarket(m) ==
    /\ market' = m
    /\ call' = [op |-> "setMarket"]
    /\ UNCHANGED config
    /\ UNCHANGED <<ordersVars, cliVars>>

\* what generateQuotes returns, for every Quoter and every argument explored
Quotes ==
    [cfg \in Configs, mkt \in {NoMarket} \cup Markets, fairPrice \in FairPrices,
     positionNotional \in Notionals, orderbook \in Orderbooks |->
        generateQuotes(cfg, mkt, fairPrice, positionNotional, orderbook)]

GenerateQuotes(fairPrice, positionNotional, orderbook) ==
    /\ call' = [op |-> "generateQuotes",
                fairPrice |-> fairPrice,
                positionNotional |-> positionNotional,
                orderbook |-> orderbook,
                quote |-> Quotes[config, market, fairPrice, positionNotional, orderbook]]
    /\ UNCHANGED <<config, market>>
    /\ UNCHANGED <<ordersVars, cliVars>>

\* the caller hands the quote it just received to quoteToOrders
QuoteToOrders(reduceOnlyArg) ==
    /\ call.op = "generateQuotes"
    /\ call' = [op |-> "quoteToOrders",
                positionNotional |-> call.positionNotional,
                quote |-> call.quote,
                reduceOnlyArg |-> reduceOnlyArg,
                orders |-> quoteToOrders(config, call.quote, reduceOnlyArg)]
    /\ UNCHANGED <<config, market>>
    /\ UNCHANGED <<ordersVars, cliVars>>

IsOrderStale(orderPrice, orderSide, fairPrice, maxDeviationArg) ==
    /\ call' = [op |-> "isOrderStale",
                orderPrice |-> orderPrice,
                orderSide |-> orderSide,
                fairPrice |-> fairPrice,
                maxDeviationArg |-> maxDeviationArg,
                stale |-> isOrderStale(orderPrice, orderSide, fairPrice,
                                       maxDeviationArg)]
    /\ UNCHANGED <<config, market>>
    /\ UNCHANGED <<ordersVars, cliVars>>

Next ==
    \/ \E m \in Markets : SetMarket(m)
    \/ \E f \in FairPrices, n \in Notionals, ob \in Orderbooks :
          GenerateQuotes(f, n, ob)
    \/ \E r \in {<<>>, <<TRUE>>, <<FALSE>>} : QuoteToOrders(r)

Spec == Init /\ [][Next]_vars

\* the staleness check alone, on a constructed Quoter
StaleNext ==
    \E f \in StaleFairPrices, k \in StaleOffsets, s \in Sides, m \in MaxDeviationArgs :
        IsOrderStale(DAdd(f, k), s, f, m)

\* isOrderStale reads nothing of the Quoter: one constructed Quoter
StaleInit == Init /\ config = CHOOSE c \in Configs : TRUE

StaleSpec == StaleInit /\ [][StaleNext]_vars

(***************************************************************************)
(* Order lifecycle: the four functions, one step per await.  exMarkets is  *)
(* what getMarkets returns and exOpen what info.openOrders returns; every  *)
(* gateway call either succeeds or throws.  A catch block logs and         *)
(* rethrows, so a throw inside a function ends the invocation with it.     *)
(***************************************************************************)
\* the Quoter is a separate object that the order functions never touch
OrdersInit ==
    /\ config = CHOOSE c \in Configs : TRUE
    /\ market = NoMarket
    /\ call = [op |-> "new"]
    /\ exMarkets \in MarketLists
    /\ exOpen \in OpenOrderLists
    /\ inv = Idle
    /\ scan = NewScanner(CHOOSE o \in ScannerOptions : TRUE)
    /\ feed = NewFeed

\* placeOrder is called: it awaits getMarkets
PlaceOrder(order) ==
    /\ inv.pc = "done"
    /\ inv' = NewInv("placeOrder", <<order>>, <<>>, <<>>, "getMarkets", "getMarkets")
    /\ UNCHANGED <<quoterVars, exMarkets, exOpen, cliVars>>

\* placeOrder after getMarkets: resolve the market, build the request, submit
PlaceOrderMarkets(ok) ==
    /\ inv.fn = "placeOrder" /\ inv.pc = "getMarkets"
    /\ inv' = IF ~ok THEN Fail(inv, "getMarkets")
              ELSE LET mkt == findMarketForSymbol(exMarkets, inv.order[1].symbol)
                   IN  IF mkt = <<>> THEN End(inv, Throw("MarketNotFound", <<>>))
                       ELSE Await(inv, "order", "order", orderParams(mkt[1], inv.order[1]))
    /\ UNCHANGED <<quoterVars, exMarkets, exOpen, cliVars>>

\* placeOrder after exchange.order
PlaceOrderResponse(response) ==
    /\ inv.fn = "placeOrder" /\ inv.pc = "order"
    /\ inv' = End(Settle(inv, "order", response), classifyOrderResponse(response))
    /\ UNCHANGED <<quoterVars, exMarkets, exOpen, cliVars>>

\* cancelOrder is called: it awaits getMarkets
CancelOrder(orderId, symbolArg) ==
    /\ inv.pc = "done"
    /\ inv' = NewInv("cancelOrder", <<>>, <<orderId>>, symbolArg, "getMarkets", "getMarkets")
    /\ UNCHANGED <<quoterVars, exMarkets, exOpen, cliVars>>

\* cancelOrder after getMarkets: with a symbol it resolves the market and
\* cancels, without one it calls getOpenOrders
CancelOrderMarkets(ok) ==
    /\ inv.fn = "cancelOrder" /\ inv.pc = "getMarkets"
    /\ inv' = IF ~ok THEN Fail(inv, "getMarkets")
              ELSE IF Truthy(inv.symbolArg)
              THEN LET target == cancelTargetBySymbol(exMarkets, inv.symbolArg[1])
                   IN  IF target.kind = "throw" THEN End(inv, target)
                       ELSE Await(inv, "cancel", "cancel",
                                  << [a |-> target.value, o |-> ParseInt(inv.orderId[1])] >>)
              ELSE Await(inv, "openOrders", "openOrders", <<>>)
    /\ UNCHANGED <<quoterVars, exMarkets, exOpen, cliVars>>

\* cancelAllOrders is called: it calls getOpenOrders, which awaits info.openOrders
CancelAllOrders(symbolArg) ==
    /\ inv.pc = "done"
    /\ inv' = NewInv("cancelAllOrders", <<>>, <<>>, symbolArg, "openOrders", "openOrders")
    /\ UNCHANGED <<quoterVars, exMarkets, exOpen, cliVars>>

\* getOpenOrders is called: it awaits info.openOrders
GetOpenOrders(symbolArg) ==
    /\ inv.pc = "done"
    /\ inv' = NewInv("getOpenOrders", <<>>, <<>>, symbolArg, "openOrders", "openOrders")
    /\ UNCHANGED <<quoterVars, exMarkets, exOpen, cliVars>>

\* getOpenOrders after info.openOrders: it awaits getMarkets
OpenOrdersInfo(ok) ==
    /\ inv.pc = "openOrders"
    /\ inv' = IF ~ok THEN FailInner(inv, "openOrders")
              ELSE Await(inv, "openOrders.getMarkets", "getMarkets", <<>>)
    /\ UNCHANGED <<quoterVars, exMarkets, exOpen, cliVars>>

\* getOpenOrders after getMarkets: the mapped orders.  cancelOrder calls it
\* without a symbol, cancelAllOrders with its own
GetOpenOrdersMarkets(ok) ==
    /\ inv.pc = "openOrders.getMarkets"
    /\ inv' = IF ~ok THEN FailInner(inv, "getMarkets")
              ELSE LET symbolArg == IF inv.fn = "cancelOrder" THEN <<>> ELSE inv.symbolArg
                       mapped == mapOpenOrders(exOpen, exMarkets, symbolArg)
                   IN  EndInner(inv, Return(mapped))
    /\ UNCHANGED <<quoterVars, exMarkets, exOpen, cliVars>>

\* cancelOrder resumed after getOpenOrders: it rethrows its error, or finds
\* the order, resolves its market and cancels
CancelOrderOpenOrders ==
    /\ inv.fn = "cancelOrder" /\ inv.pc = "getOpenOrders"
    /\ inv' = IF inv.inner.kind = "throw" THEN End(inv, inv.inner)
              ELSE LET openOrders == inv.inner.value
                       target == cancelTargetByOrders(exMarkets, openOrders, inv.orderId[1])
                       found  == [inv EXCEPT !.openOrders = openOrders]
                   IN  IF target.kind = "throw" THEN End(found, target)
                       ELSE Await(found, "cancel", "cancel",
                                  << [a |-> target.value, o |-> ParseInt(inv.orderId[1])] >>)
    /\ UNCHANGED <<quoterVars, exMarkets, exOpen, cliVars>>

\* cancelOrder after exchange.cancel
CancelOrderResponse(response) ==
    /\ inv.fn = "cancelOrder" /\ inv.pc = "cancel"
    /\ inv' = End(Settle(inv, "cancel", response), classifyCancelResponse(response))
    /\ UNCHANGED <<quoterVars, exMarkets, exOpen, cliVars>>

\* cancelAllOrders resumed after getOpenOrders: it rethrows its error,
\* returns if there is nothing to cancel, and else awaits getMarkets
CancelAllOpenOrders ==
    /\ inv.fn = "cancelAllOrders" /\ inv.pc = "getOpenOrders"
    /\ inv' = IF inv.inner.kind = "throw" THEN End(inv, inv.inner)
              ELSE LET openOrders == inv.inner.value
                       found == [inv EXCEPT !.openOrders = openOrders]
                   IN  IF Len(openOrders) = 0 THEN End(found, Return(<<>>))
                       ELSE Await(found, "getMarkets", "getMarkets", <<>>)
    /\ UNCHANGED <<quoterVars, exMarkets, exOpen, cliVars>>

\* cancelAllOrders after getMarkets: build the batch and cancel it
CancelAllMarkets(ok) ==
    /\ inv.fn = "cancelAllOrders" /\ inv.pc = "getMarkets"
    /\ inv' = IF ~ok THEN Fail(inv, "getMarkets")
              ELSE LET cancels == buildCancels(exMarkets, inv.openOrders)
                   IN  IF cancels.kind = "throw" THEN End(inv, cancels)
                       ELSE Await(inv, "cancel", "cancel", cancels.value)
    /\ UNCHANGED <<quoterVars, exMarkets, exOpen, cliVars>>

\* cancelAllOrders after exchange.cancel: unwrap the statuses and count them
CancelAllResponse(response) ==
    /\ inv.fn = "cancelAllOrders" /\ inv.pc = "cancel"
    /\ inv' = LET result == cancelAllOutcome(inv.openOrders, response)
              IN  [End(Settle(inv, "cancel", response), result.outcome) EXCEPT
                      !.successCount = result.successCount,
                      !.failCount = result.failCount,
                      !.warnings = result.warnings]
    /\ UNCHANGED <<quoterVars, exMarkets, exOpen, cliVars>>

OrdersNext ==
    \/ \E order \in OrderRequests : PlaceOrder(order)
    \/ \E ok \in BOOLEAN : PlaceOrderMarkets(ok)
    \/ \E response \in OrderResponses : PlaceOrderResponse(response)
    \/ \E orderId \in OrderIds, symbolArg \in SymbolArgs : CancelOrder(orderId, symbolArg)
    \/ \E ok \in BOOLEAN : CancelOrderMarkets(ok)
    \/ CancelOrderOpenOrders
    \/ \E response \in CancelResponses : CancelOrderResponse(response)
    \/ \E symbolArg \in SymbolArgs : CancelAllOrders(symbolArg)
    \/ \E symbolArg \in SymbolArgs : GetOpenOrders(symbolArg)
    \/ \E ok \in BOOLEAN : OpenOrdersInfo(ok)
    \/ \E ok \in BOOLEAN : GetOpenOrdersMarkets(ok)
    \/ CancelAllOpenOrders
    \/ \E ok \in BOOLEAN : CancelAllMarkets(ok)
    \/ \E response \in CancelResponses : CancelAllResponse(response)

OrdersSpec == OrdersInit /\ [][OrdersNext]_vars

(***************************************************************************)
(* Scanner: main().  The initial fetch, then the interval callback, the    *)
(* end of the fetch it started, and shutdown.                              *)
(***************************************************************************)
ScannerInit ==
    /\ config = CHOOSE c \in Configs : TRUE
    /\ market = NoMarket
    /\ call = [op |-> "new"]
    /\ exMarkets = <<>>
    /\ exOpen = <<>>
    /\ inv = Idle
    /\ scan \in { NewScanner(o) : o \in ScannerOptions }
    /\ feed = NewFeed

\* the initial fetch ends: main goes on to render and setInterval, or
\* rejects, and main().catch exits with code 1
InitialFetched(result) ==
    /\ scan.phase = "initial"
    /\ scan' = IF result.ok
               THEN LET processed == processMarkets(scan.options, result.markets)
                    IN  [scan EXCEPT !.markets = result.markets,
                                     !.processed = processed,
                                     !.rendered = Rendered(scan.options, processed, FALSE),
                                     !.timer = TRUE,
                                     !.phase = "running"]
               ELSE [scan EXCEPT !.phase = "exited", !.exitCode = <<1>>]
    /\ UNCHANGED <<quoterVars, ordersVars, feed>>

\* mutant: the interval callback fetches whether or not a fetch is pending
RefreshTick_unguarded ==
    /\ scan.phase = "running" /\ scan.timer
    /\ scan.inFlight < MaxInFlight
    /\ scan' = [scan EXCEPT !.isFetching = TRUE,
                            !.rendered = Rendered(scan.options, scan.processed, TRUE),
                            !.inFlight = @ + 1,
                            !.lastTick = "started"]
    /\ UNCHANGED <<quoterVars, ordersVars, feed>>

\* the interval callback, up to its await
RefreshTick ==
    /\ scan.phase = "running" /\ scan.timer
    /\ scan.inFlight < MaxInFlight
    /\ scan' = IF scan.isFetching
               THEN [scan EXCEPT !.lastTick = "skipped"]
               ELSE [scan EXCEPT !.isFetching = TRUE,
                                 !.rendered = Rendered(scan.options, scan.processed, TRUE),
                                 !.inFlight = @ + 1,
                                 !.lastTick = "started"]
    /\ UNCHANGED <<quoterVars, ordersVars, feed>>

\* mutant: a failed refresh empties the list
RefreshFetched_clearing(result) ==
    /\ scan.phase = "running" /\ scan.inFlight > 0
    /\ scan' = IF result.ok
               THEN LET processed == processMarkets(scan.options, result.markets)
                    IN  [scan EXCEPT !.markets = result.markets,
                                     !.processed = processed,
                                     !.rendered = Rendered(scan.options, processed, FALSE),
                                     !.isFetching = FALSE,
                                     !.inFlight = @ - 1,
                                     !.lastFetch = "ok"]
               ELSE [scan EXCEPT !.processed = <<>>,
                                 !.rendered = Rendered(scan.options, <<>>, FALSE),
                                 !.isFetching = FALSE,
                                 !.inFlight = @ - 1,
                                 !.lastFetch = "failed"]
    /\ UNCHANGED <<quoterVars, ordersVars, feed>>

\* the interval callback from its await on: try, catch and finally
RefreshFetched(result) ==
    /\ scan.phase = "running" /\ scan.inFlight > 0
    /\ scan' = IF result.ok
               THEN LET processed == processMarkets(scan.options, result.markets)
                    IN  [scan EXCEPT !.markets = result.markets,
                                     !.processed = processed,
                                     !.rendered = Rendered(scan.options, processed, FALSE),
                                     !.isFetching = FALSE,
                                     !.inFlight = @ - 1,
                                     !.lastFetch = "ok"]
               ELSE [scan EXCEPT !.rendered = Rendered(scan.options, scan.processed, FALSE),
                                 !.isFetching = FALSE,
                                 !.inFlight = @ - 1,
                                 !.lastFetch = "failed"]
    /\ UNCHANGED <<quoterVars, ordersVars, feed>>

\* SIGINT or SIGTERM: clearInterval and process.exit(0)
Shutdown ==
    /\ scan.phase = "running"
    /\ scan' = [scan EXCEPT !.timer = FALSE, !.phase = "exited", !.exitCode = <<0>>]
    /\ UNCHANGED <<quoterVars, ordersVars, feed>>

ScannerNext ==
    \/ \E result \in FetchOutcomes : InitialFetched(result)
    \/ RefreshTick
    \/ \E result \in FetchOutcomes : RefreshFetched(result)
    \/ Shutdown

ScannerSpec == ScannerInit /\ [][ScannerNext]_vars

(***************************************************************************)
(* HyperpsPriceFeed: connect up to its await and from it on, the interval  *)
(* callback, the end of a poll fetch, and disconnect.  Calls and callbacks *)
(* interleave in any order the event loop allows.                          *)
(***************************************************************************)
\* connect(): returns when connected, else creates the client and awaits
\* the initial fetchOraclePrice
Connect ==
    /\ feed.passes < MaxConnects
    /\ feed' = IF feed.connected
               THEN [feed EXCEPT !.lastCall = "connect"]
               ELSE [feed EXCEPT !.info = TRUE,
                                 !.connecting = @ + 1,
                                 !.passes = @ + 1,
                                 !.lastCall = "connect"]
    /\ UNCHANGED <<quoterVars, ordersVars, scan>>

\* the initial fetchOraclePrice of a connect() ends: a usable price is
\* stored and handed to the callback, and connect() is resumed in a later
\* turn of the event loop
ConnectFetched(result, callback) ==
    /\ feed.connecting > 0
    /\ result.kind = "price" => feed.callbacks < MaxUpdates
    /\ result.kind # "price" => callback = "return"
    /\ feed' = LET fetched == applyOracleResult(feed, result, callback)
               IN  IF fetched.lastFetch = "rejected"
                   THEN [fetched EXCEPT !.connecting = @ - 1, !.failing = @ + 1]
                   ELSE [fetched EXCEPT !.connecting = @ - 1, !.ready = @ + 1]
    /\ UNCHANGED <<quoterVars, ordersVars, scan>>

\* connect() resumed after its fetch: setInterval and _connected = true
ConnectResumed ==
    /\ feed.ready > 0
    /\ feed' = [feed EXCEPT !.timers = @ \cup {feed.started + 1},
                            !.pollInterval = feed.started + 1,
                            !.started = @ + 1,
                            !.connected = TRUE,
                            !.ready = @ - 1]
    /\ UNCHANGED <<quoterVars, ordersVars, scan>>

\* connect() resumed after its fetch rejected: connect() rejects
ConnectRejected ==
    /\ feed.failing > 0
    /\ feed' = [feed EXCEPT !.failing = @ - 1]
    /\ UNCHANGED <<quoterVars, ordersVars, scan>>

\* a timer fires: fetchOraclePrice returns at once without a client, else
\* awaits info.metaAndAssetCtxs()
PollTick(timer) ==
    /\ timer \in feed.timers
    /\ feed.polling < MaxPolls
    /\ feed' = IF ~feed.info
               THEN [feed EXCEPT !.lastPoll = "skipped"]
               ELSE [feed EXCEPT !.polling = @ + 1, !.lastPoll = "fetching"]
    /\ UNCHANGED <<quoterVars, ordersVars, scan>>

\* a poll's fetch ends: a usable price is stored and handed to the callback;
\* a rejection is logged by the timer's catch
PollFetched(result, callback) ==
    /\ feed.polling > 0
    /\ result.kind = "price" => feed.callbacks < MaxUpdates
    /\ result.kind # "price" => callback = "return"
    /\ feed' = [applyOracleResult(feed, result, callback) EXCEPT !.polling = @ - 1]
    /\ UNCHANGED <<quoterVars, ordersVars, scan>>

\* disconnect(): clears the timer pollInterval refers to, drops the client
Disconnect ==
    /\ feed' = disconnect(feed)
    /\ UNCHANGED <<quoterVars, ordersVars, scan>>

FeedNext ==
    \/ Connect
    \/ \E result \in OracleResults, callback \in CallbackOutcomes :
          ConnectFetched(result, callback)
    \/ ConnectResumed
    \/ ConnectRejected
    \/ \E timer \in 1..MaxConnects : PollTick(timer)
    \/ \E result \in OracleResults, callback \in CallbackOutcomes :
          PollFetched(result, callback)
    \/ Disconnect

FeedInit ==
    /\ config = CHOOSE c \in Configs : TRUE
    /\ market = NoMarket
    /\ call = [op |-> "new"]
    /\ exMarkets = <<>>
    /\ exOpen = <<>>
    /\ inv = Idle
    /\ scan = NewScanner(CHOOSE o \in ScannerOptions : TRUE)
    /\ feed = NewFeed

FeedSpec == FeedInit /\ [][FeedNext]_vars

(***************************************************************************)
(* Properties.  Generated holds right after a generateQuotes call,         *)
(* Translated right after the quoteToOrders call that followed it.         *)
(***************************************************************************)
Generated == call.op = "generateQuotes"
Translated == call.op = "quoteToOrders"
Zero == DI(0)
IsLong == DGt(call.positionNotional, Zero)
IsShort == DLt(call.positionNotional, Zero)
NoMetadataNoBook == Generated /\ ~market.isSet /\ ~call.orderbook.given
WithBook == Generated /\ market.isSet /\ call.orderbook.given

\* The real numbers that finite doubles stand for, [k, s, m, e] with any
\* natural m, and their exact product, sum and difference; DCmp and the
\* comparisons built on it compare such values exactly.
TwoTo(e) == [k |-> "fin", s |-> 0, m |-> <<1>>, e |-> e]

XMul(a, b) ==
    [k |-> "fin", s |-> (a.s + b.s) % 2, m |-> BMul(a.m, b.m), e |-> a.e + b.e]

XAdd(a, b) ==
    LET al == Aligned(a, b)
    IN  IF a.s = b.s THEN [k |-> "fin", s |-> a.s, m |-> BAdd(al.a, al.b), e |-> al.e]
        ELSE IF BCmp(al.a, al.b) >= 0
             THEN [k |-> "fin", s |-> a.s, m |-> BSub(al.a, al.b), e |-> al.e]
             ELSE [k |-> "fin", s |-> b.s, m |-> BSub(al.b, al.a), e |-> al.e]

XSub(a, b) == XAdd(a, DNeg(b))

\* price is a multiple of the tick as doubles have it: k * tickSize, rounded,
\* for an integer k
OnTick(price, tickSize) ==
    LET q == DDiv(price, tickSize)
    IN  \/ DEq(price, DMul(DFloor(q), tickSize))
        \/ DEq(price, DMul(DCeil(q), tickSize))

\* C1: after any sequence of calls, the isCloseMode returned by generateQuotes
\* is exactly |positionNotional| > closeThresholdUsd (false at equality),
\* whatever the mode of the call before it.
C1_CloseModeIsThreshold ==
    Generated =>
        LET a == DAbs(call.positionNotional)
            t == config.closeThresholdUsd
        IN  /\ call.quote.isCloseMode <=> DCmp(a, t) > 0
            /\ (DCmp(a, t) = 0 => ~call.quote.isCloseMode)

\* C1 witness: a position exactly at a positive threshold, market set, quoted
\* in normal mode.
C1_Witness ==
    /\ Generated
    /\ market.isSet
    /\ DEq(DAbs(call.positionNotional), config.closeThresholdUsd)
    /\ DGt(config.closeThresholdUsd, Zero)
    /\ ~call.quote.isCloseMode

\* C2: in close mode a long position has bidSize = 0 and a short position has
\* askSize = 0, with or without metadata and orderbook.
C2_CloseModeSuppression ==
    (Generated /\ call.quote.isCloseMode) =>
        /\ IsLong => IsZero(call.quote.bidSize)
        /\ IsShort => IsZero(call.quote.askSize)

\* C2 witness: close mode, long, metadata and orderbook present, a positive
\* bid price whose size is nevertheless 0.
C2_Witness ==
    /\ WithBook
    /\ call.quote.isCloseMode
    /\ IsLong
    /\ DGt(call.quote.bidPrice, Zero)
    /\ IsZero(call.quote.bidSize)
    /\ DGt(call.quote.askSize, Zero)

\* C3 as stated: in close mode exactly one of bidSize and askSize is 0 and the
\* other is nonzero.
C3_ExactlyOneSideZero ==
    (Generated /\ call.quote.isCloseMode) =>
        /\ IsLong => (IsZero(call.quote.bidSize) /\ ~IsZero(call.quote.askSize))
        /\ IsShort => (IsZero(call.quote.askSize) /\ ~IsZero(call.quote.bidSize))

\* C3 amended: in close mode the side that would increase the position has
\* size 0, and the other side has a nonzero size exactly when its price is > 0.
C3_IncreasingSideZero ==
    (Generated /\ call.quote.isCloseMode) =>
        /\ IsLong =>
              /\ IsZero(call.quote.bidSize)
              /\ (~IsZero(call.quote.askSize) <=> DGt(call.quote.askPrice, Zero))
        /\ IsShort =>
              /\ IsZero(call.quote.askSize)
              /\ (~IsZero(call.quote.bidSize) <=> DGt(call.quote.bidPrice, Zero))
        /\ (IsLong \/ IsShort)

\* C3 witness: close mode, short, the bid price is not positive, so both
\* sizes are 0.
C3_Witness ==
    /\ Generated
    /\ call.quote.isCloseMode
    /\ IsShort
    /\ DLe(call.quote.bidPrice, Zero)
    /\ IsZero(call.quote.bidSize)
    /\ IsZero(call.quote.askSize)

\* C4: with metadata and an orderbook, the bid price is below the best ask
\* when there is one and the ask price is above the best bid when there is one.
C4_PostOnlySafety ==
    WithBook =>
        /\ Len(call.orderbook.asks) > 0 =>
              DLt(call.quote.bidPrice, call.orderbook.asks[1][1])
        /\ Len(call.orderbook.bids) > 0 =>
              DGt(call.quote.askPrice, call.orderbook.bids[1][1])

\* C4 witness: the tick-rounded bid reached the best ask and the tick-rounded
\* ask reached the best bid; both were moved off the top of book.
C4_Witness ==
    /\ WithBook
    /\ Len(call.orderbook.asks) > 0
    /\ Len(call.orderbook.bids) > 0
    /\ DGe(roundToTick(market, rawBidPrice(call.fairPrice, call.quote.spreadBps), "down"),
           call.orderbook.asks[1][1])
    /\ DLe(roundToTick(market, rawAskPrice(call.fairPrice, call.quote.spreadBps), "up"),
           call.orderbook.bids[1][1])
    /\ call.quote.bidPrice = DSub(call.orderbook.asks[1][1], market.tickSize)
    /\ call.quote.askPrice = DAdd(call.orderbook.bids[1][1], market.tickSize)

\* C5: with metadata set, the bid price is a nonnegative integer multiple of
\* tickSize, for every orderbook argument.
C5_BidOnTickGrid ==
    (Generated /\ market.isSet) =>
        /\ DGe(call.quote.bidPrice, Zero)
        /\ OnTick(call.quote.bidPrice, market.tickSize)

\* orderSizeUsd less the rounding allowance, orderSizeUsd * (1 - 2^-50)
NotionalFloor == XSub(config.orderSizeUsd, XMul(config.orderSizeUsd, TwoTo(-50)))

\* C6 as stated: a nonzero price implies size * price >= orderSizeUsd, on
\* both sides, in normal and in close mode.
C6_NotionalWheneverPriced ==
    Generated =>
        /\ ~IsZero(call.quote.bidPrice) =>
              DGe(XMul(call.quote.bidSize, call.quote.bidPrice), config.orderSizeUsd)
        /\ ~IsZero(call.quote.askPrice) =>
              DGe(XMul(call.quote.askSize, call.quote.askPrice), config.orderSizeUsd)

\* C6 amended: a side that is quoted (size nonzero) has
\* size * price >= orderSizeUsd * (1 - 2^-50), the product taken exactly; a
\* side with a positive price that close mode does not suppress is quoted.
C6_NotionalWhenQuoted ==
    Generated =>
        /\ ~IsZero(call.quote.bidSize) =>
              DGe(XMul(call.quote.bidSize, call.quote.bidPrice), NotionalFloor)
        /\ ~IsZero(call.quote.askSize) =>
              DGe(XMul(call.quote.askSize, call.quote.askPrice), NotionalFloor)
        /\ (DGt(call.quote.bidPrice, Zero) /\ ~(call.quote.isCloseMode /\ IsLong))
              => ~IsZero(call.quote.bidSize)
        /\ (DGt(call.quote.askPrice, Zero) /\ ~(call.quote.isCloseMode /\ ~IsLong))
              => ~IsZero(call.quote.askSize)

\* C6 witness: a quoted bid whose size, the rounded quotient
\* orderSizeUsd / bidPrice, times its price falls short of orderSizeUsd by
\* less than the allowance, beside a quoted ask.
C6_Witness ==
    /\ Generated
    /\ ~IsZero(call.quote.bidSize)
    /\ ~IsZero(call.quote.askSize)
    /\ DLt(XMul(call.quote.bidSize, call.quote.bidPrice), config.orderSizeUsd)

\* askPrice - bidPrice as computed on doubles, and the distance of 10000
\* times that width from 10000 times the width w of the claim
Width == DSub(call.quote.askPrice, call.quote.bidPrice)
WidthError(w10000) == DAbs(XSub(XMul(DI(10000), Width), w10000))
WidthAllowance == XMul(XMul(DI(10000), call.quote.askPrice), TwoTo(-48))

\* C7 as stated: without metadata and orderbook, bidPrice < fairPrice <
\* askPrice and askPrice - bidPrice = 2 * fairPrice * s / 10000 for every
\* applied spread s > 0.
C7_SpreadProportional ==
    (NoMetadataNoBook /\ DGt(call.quote.spreadBps, Zero)) =>
        /\ DLt(call.quote.bidPrice, call.fairPrice)
        /\ DLt(call.fairPrice, call.quote.askPrice)
        /\ DLe(WidthError(XMul(XMul(DI(2), call.fairPrice), call.quote.spreadBps)),
               WidthAllowance)

\* C7 amended: without metadata and orderbook, bidPrice < fairPrice <
\* askPrice for every s > 0; askPrice - bidPrice is within askPrice * 2^-48 of
\* 2 * fairPrice * s / 10000 when s <= 10000; when s > 10000 the bid is 0 and
\* askPrice - bidPrice is within askPrice * 2^-48 of fairPrice * (1 + s / 10000).
C7_SpreadProportionalUpTo10000 ==
    (NoMetadataNoBook /\ DGt(call.quote.spreadBps, Zero)) =>
        LET s == call.quote.spreadBps
        IN  /\ DLt(call.quote.bidPrice, call.fairPrice)
            /\ DLt(call.fairPrice, call.quote.askPrice)
            /\ DLe(s, DI(10000)) =>
                  DLe(WidthError(XMul(XMul(DI(2), call.fairPrice), s)), WidthAllowance)
            /\ DGt(s, DI(10000)) =>
                  /\ IsZero(call.quote.bidPrice)
                  /\ DLe(WidthError(XMul(call.fairPrice, XAdd(DI(10000), s))),
                         WidthAllowance)

\* C7 witness: no metadata, no orderbook, an applied spread above 10000 bps.
C7_Witness ==
    /\ NoMetadataNoBook
    /\ DGt(call.quote.spreadBps, DI(10000))
    /\ IsZero(call.quote.bidPrice)
    /\ DGt(call.quote.askPrice, call.fairPrice)

\* C8: quoteToOrders emits one request per side whose size is > 0, every
\* request post-only and of type limit, the buy carrying (bidPrice, bidSize),
\* the sell (askPrice, askSize), the buy first.
C8_OneRequestPerQuotedSide ==
    Translated =>
        LET q == call.quote
            o == call.orders
            hasBid == DGt(q.bidSize, Zero)
            hasAsk == DGt(q.askSize, Zero)
        IN  /\ Len(o) = (IF hasBid THEN 1 ELSE 0) + (IF hasAsk THEN 1 ELSE 0)
            /\ \A i \in 1..Len(o) : o[i].postOnly /\ o[i].type = "limit"
            /\ hasBid => /\ o[1].side = "buy"
                         /\ o[1].price = q.bidPrice
                         /\ o[1].size = q.bidSize
            /\ hasAsk => /\ o[Len(o)].side = "sell"
                         /\ o[Len(o)].price = q.askPrice
                         /\ o[Len(o)].size = q.askSize

\* C8 witness: both sides quoted, two requests emitted.
C8_Witness ==
    /\ Translated
    /\ Len(call.orders) = 2
    /\ call.orders[1].side = "buy"
    /\ call.orders[2].side = "sell"

\* C9: every emitted request has reduceOnly = (argument OR quote.isCloseMode),
\* and in close mode no request is emitted on the side that increases the
\* position.
C9_ReduceOnlyInCloseMode ==
    Translated =>
        LET q == call.quote
            o == call.orders
            override == call.reduceOnlyArg = <<TRUE>>
        IN  /\ \A i \in 1..Len(o) : o[i].reduceOnly <=> (override \/ q.isCloseMode)
            /\ q.isCloseMode =>
                  /\ IsLong => \A i \in 1..Len(o) : o[i].side # "buy"
                  /\ IsShort => \A i \in 1..Len(o) : o[i].side # "sell"

\* C9 witness: close mode, the argument passed as false, one reducing request
\* emitted with reduceOnly set.
C9_Witness ==
    /\ Translated
    /\ call.quote.isCloseMode
    /\ call.reduceOnlyArg = <<FALSE>>
    /\ IsLong
    /\ Len(call.orders) = 1
    /\ call.orders[1].side = "sell"
    /\ call.orders[1].reduceOnly

\* C10: isOrderStale is true exactly when
\* |orderPrice - fairPrice| * 10000 > maxDeviationBps * fairPrice, gives the
\* same answer for the price mirrored about fairPrice and for either side,
\* and uses 50 bps when no maximum is passed.
C10_StaleIffDeviationExceeds ==
    call.op = "isOrderStale" =>
        LET diff == DAbs(XSub(call.orderPrice, call.fairPrice))
            maxBps == IF call.maxDeviationArg = <<>> THEN DI(50)
                      ELSE call.maxDeviationArg[1]
            mirrored == DSub(DMul(DI(2), call.fairPrice), call.orderPrice)
        IN  /\ call.stale <=> DGt(XMul(diff, DI(10000)), XMul(maxBps, call.fairPrice))
            /\ call.stale = isOrderStale(mirrored, call.orderSide, call.fairPrice,
                                         call.maxDeviationArg)
            /\ \A sd \in Sides :
                  call.stale = isOrderStale(call.orderPrice, sd, call.fairPrice,
                                            call.maxDeviationArg)

(***************************************************************************)
(* Properties of the order lifecycle.                                      *)
(***************************************************************************)
\* the invocation of fn has ended
Done(fn) == inv.fn = fn /\ inv.pc = "done"

\* how many times the invocation has issued the gateway call
Issued(callName) == Len(SelectSeq(inv.gw, LAMBDA e : e.call = callName))

\* the argument of the invocation's (single) request of that name
Request(callName) == SelectSeq(inv.gw, LAMBDA e : e.call = callName)[1].arg

Returns == inv.outcome.kind = "return"

Raises(type) == inv.outcome.kind = "throw" /\ inv.outcome.error.type = type

\* the invocation ended because that gateway call threw
GatewayRaised(callName) ==
    Raises("GatewayError") /\ inv.outcome.error.message = <<callName>>

\* the request was answered with a response (not a thrown error) whose
\* first status is FirstStatus
Answered == ~inv.response.thrown /\ inv.response.statuses # <<>>

HasFirstStatus == Answered /\ Len(inv.response.statuses[1]) > 0

FirstStatus == inv.response.statuses[1][1]

SuccessStatus == StrStatus("success")

GoneStatus == ObjStatus({"error"}, GoneMessage)

\* some market has this base
Resolvable(base) == \E i \in 1..Len(exMarkets) : exMarkets[i].base = base

\* the asset id of the market with this base is a
IsAssetOf(a, base) ==
    \E i \in 1..Len(exMarkets) : exMarkets[i].base = base /\ ToString(a) = exMarkets[i].id

\* a symbol filter is given: the argument is neither left out nor empty
Filtered == inv.symbolArg # <<>> /\ inv.symbolArg[1] # <<"">>

\* the native open orders that pass the filter of cancelAllOrders or
\* getOpenOrders: those whose coin is the first part of the symbol
Matching ==
    IF ~Filtered THEN exOpen
    ELSE SelectSeq(exOpen, LAMBDA o : o.coin = inv.symbolArg[1][1])

\* C11: placeOrder returns an OrderResult only for a first status that is an
\* object without an error field and with a resting record (status open,
\* id/clientId of that record) or else a filled record (status closed,
\* id/clientId of that record); a thrown request, a missing status, a string
\* status, an object with an error field and any other object make it raise.
C11_PlaceOrderClassification ==
    (Done("placeOrder") /\ Issued("order") = 1) =>
        IF HasFirstStatus /\ FirstStatus.t = "object"
           /\ "error" \notin FirstStatus.keys /\ "resting" \in FirstStatus.keys
        THEN /\ Returns
             /\ inv.outcome.value.status = "open"
             /\ inv.outcome.value.orderId = "7"
             /\ inv.outcome.value.clientId = <<"0xa">>
        ELSE IF HasFirstStatus /\ FirstStatus.t = "object"
                /\ "error" \notin FirstStatus.keys /\ "filled" \in FirstStatus.keys
        THEN /\ Returns
             /\ inv.outcome.value.status = "closed"
             /\ inv.outcome.value.orderId = "8"
             /\ inv.outcome.value.clientId = <<>>
        ELSE inv.outcome.kind = "throw"

\* placeOrder has raised on a status that carries an error beside a
\* resting record
C11_Witness ==
    /\ Done("placeOrder") /\ HasFirstStatus
    /\ FirstStatus.keys = {"error", "resting"}
    /\ Raises("OrderRejected")

\* C12: if no market matches the order's symbol, placeOrder never issues the
\* exchange order request and, once getMarkets has answered, raises
\* MarketNotFound.
C12_MarketNotFoundBeforeSubmit ==
    (inv.fn = "placeOrder"
       /\ \A i \in 1..Len(exMarkets) :
              /\ exMarkets[i].symbol # inv.order[1].symbol
              /\ exMarkets[i].base # inv.order[1].symbol[1]) =>
        /\ Issued("order") = 0
        /\ inv.pc # "order"
        /\ inv.pc = "done" => (Raises("MarketNotFound") \/ GatewayRaised("getMarkets"))

\* placeOrder for DOGE while the exchange lists BTC and ETH
C12_Witness ==
    /\ Done("placeOrder") /\ Raises("MarketNotFound")
    /\ Len(exMarkets) = 2 /\ inv.order[1].symbol[1] = "DOGE"

\* the open order with the id cancelOrder was given, if any
FoundOrder == SelectSeq(exOpen, LAMBDA o : ToString(o.oid) = inv.orderId[1])

\* cancelOrder without a symbol has got the open orders from getOpenOrders
LookedUp ==
    /\ inv.fn = "cancelOrder" /\ ~Filtered
    /\ Issued("openOrders") = 1 /\ Issued("getMarkets") = 2
    /\ inv.pc \in {"cancel", "done"}
    /\ ~GatewayRaised("getMarkets") /\ ~GatewayRaised("openOrders")

\* cancelOrder without a symbol issues no cancel before the open-order query
QueriesFirst ==
    (inv.fn = "cancelOrder" /\ ~Filtered) =>
        \A i \in 1..Len(inv.gw) :
            inv.gw[i].call = "cancel" =>
                \E j \in 1..(i - 1) : inv.gw[j].call = "openOrders"

\* C13 as stated: cancelOrder without a symbol first queries open orders; if
\* no open order has the id it raises OrderNotFound and issues no cancel; if
\* one is found, the cancel request is issued for the market of its symbol.
C13_FoundOrderIsCancelled ==
    /\ QueriesFirst
    /\ LookedUp =>
         IF FoundOrder = <<>>
         THEN Raises("OrderNotFound") /\ Issued("cancel") = 0
         ELSE /\ Issued("cancel") = 1
              /\ Len(Request("cancel")) = 1
              /\ IsAssetOf(Request("cancel")[1].a, FoundOrder[1].coin)
              /\ ToString(Request("cancel")[1].o) = inv.orderId[1]

\* C13 amended: cancelOrder without a symbol first queries open orders; if
\* no open order has the id it raises OrderNotFound and issues no cancel; if
\* one is found and a market has its coin as base, the cancel request is
\* issued for that market; if one is found and no market has its coin as
\* base, it raises MarketNotFound and issues no cancel.
C13_FoundOrderWithMarketIsCancelled ==
    /\ QueriesFirst
    /\ LookedUp =>
         IF FoundOrder = <<>>
         THEN Raises("OrderNotFound") /\ Issued("cancel") = 0
         ELSE IF Resolvable(FoundOrder[1].coin)
         THEN /\ Issued("cancel") = 1
              /\ Len(Request("cancel")) = 1
              /\ IsAssetOf(Request("cancel")[1].a, FoundOrder[1].coin)
              /\ ToString(Request("cancel")[1].o) = inv.orderId[1]
         ELSE Raises("MarketNotFound") /\ Issued("cancel") = 0

\* the ETH order 2 was found among two open orders and its cancel went to
\* asset 1
C13_Witness ==
    /\ LookedUp /\ inv.orderId = <<"2">> /\ Len(exOpen) = 2
    /\ Issued("cancel") = 1 /\ Request("cancel")[1].a = 1

\* C14: cancelOrder completes normally if and only if its cancel request was
\* answered with a first status equal to "success"; a missing status or any
\* other first status makes it raise the cancel's failure.
C14_CancelReturnsIffSuccess ==
    Done("cancelOrder") =>
        /\ Returns <=> (Issued("cancel") = 1 /\ HasFirstStatus /\ FirstStatus = SuccessStatus)
        /\ (Issued("cancel") = 1 /\ Answered /\ ~Returns) =>
              IF HasFirstStatus THEN Raises("CancelFailed") ELSE Raises("NoCancelStatus")

\* cancelOrder has completed on "success" with a second, failed status behind it
C14_Witness ==
    /\ Done("cancelOrder") /\ Returns
    /\ Len(inv.response.statuses[1]) = 2
    /\ inv.response.statuses[1][2] = ObjStatus({"error"}, OtherMessage)

\* C15: when the exchange answers a cancel with an error saying the order
\* was already canceled or filled, neither cancelOrder nor cancelAllOrders
\* raises for that order.  The first conjunct is the single cancel
\* (orders.ts:170-179), the second the bulk cancel (orders.ts:238-251), whose
\* statuses are all "success" or the already-gone error.
C15_AlreadyResolvedNeverRaises ==
    /\ (Done("cancelOrder") /\ Issued("cancel") = 1 /\ HasFirstStatus
          /\ FirstStatus = GoneStatus) => Returns
    /\ (Done("cancelAllOrders") /\ Issued("cancel") = 1 /\ HasFirstStatus
          /\ \A i \in 1..Len(inv.response.statuses[1]) :
                 inv.response.statuses[1][i] \in {SuccessStatus, GoneStatus})
         => Returns /\ inv.failCount = 0

\* C16: cancelAllOrders issues no cancel request when no open order matches
\* the filter and then completes normally; otherwise it issues one batched
\* cancel request, never more, whose entries are one (asset id, order id)
\* pair per fetched open order in the order of the fetched list.
C16_OneBatchedCancel ==
    inv.fn = "cancelAllOrders" =>
        /\ Issued("cancel") <= 1
        /\ Len(Matching) = 0 =>
              /\ Issued("cancel") = 0
              /\ (inv.pc = "done" /\ ~Raises("GatewayError")) => Returns
        /\ Issued("cancel") = 1 =>
              /\ Len(Request("cancel")) = Len(Matching)
              /\ \A i \in 1..Len(Matching) :
                    /\ Request("cancel")[i].o = Matching[i].oid
                    /\ IsAssetOf(Request("cancel")[i].a, Matching[i].coin)
        /\ (Len(Matching) > 0
              /\ (\A i \in 1..Len(Matching) : Resolvable(Matching[i].coin))
              /\ inv.pc = "done"
              /\ ~GatewayRaised("openOrders") /\ ~GatewayRaised("getMarkets"))
             => Issued("cancel") = 1

\* two open orders on two markets went out in one request, BTC order 4
\* before ETH order 2
C16_Witness ==
    /\ Done("cancelAllOrders") /\ Issued("cancel") = 1
    /\ Len(Request("cancel")) = 2
    /\ Request("cancel")[1] = [a |-> 0, o |-> 4]
    /\ Request("cancel")[2] = [a |-> 1, o |-> 2]

\* C17: in cancelAllOrders, if the market of any fetched open order cannot
\* be resolved, no cancel request is issued for any order of the batch and
\* the call raises MarketNotFound.
C17_UnresolvedMarketFailsBatch ==
    (inv.fn = "cancelAllOrders"
       /\ \E i \in 1..Len(Matching) : ~Resolvable(Matching[i].coin)) =>
        /\ Issued("cancel") = 0
        /\ inv.pc # "cancel"
        /\ (inv.pc = "done" /\ ~Raises("GatewayError")) => Raises("MarketNotFound")

\* a batch of a resolvable BTC order and an unresolvable DOGE order failed
C17_Witness ==
    /\ Done("cancelAllOrders") /\ Raises("MarketNotFound")
    /\ Len(inv.openOrders) = 2
    /\ Resolvable(inv.openOrders[1].symbol[1])
    /\ ~Resolvable(inv.openOrders[2].symbol[1])

\* what the caller and the log see of a finished cancelAllOrders
Summary(outcome, successCount, failCount, warnings) ==
    [kind |-> outcome.kind, successCount |-> successCount,
     failCount |-> failCount, warnings |-> warnings]

\* C18: a status array S delivered inside a thrown error gives cancelAllOrders
\* the same outcome, counts and failure reports as S delivered in a normal
\* response.
C18_ThrownStatusesSameAsReturned ==
    (Done("cancelAllOrders") /\ Issued("cancel") = 1
       /\ inv.response.thrown /\ inv.response.statuses # <<>>) =>
        LET normal == cancelAllOutcome(inv.openOrders, Returned(inv.response.statuses[1]))
        IN  /\ normal.outcome.kind = "return"
            /\ Summary(inv.outcome, inv.successCount, inv.failCount, inv.warnings)
                 = Summary(normal.outcome, normal.successCount, normal.failCount,
                           normal.warnings)

\* a thrown error carried one success and one failure
C18_Witness ==
    /\ Done("cancelAllOrders") /\ Returns
    /\ inv.response = ThrownWith(<<SuccessStatus, ObjStatus({"error"}, OtherMessage)>>)
    /\ inv.successCount = 1 /\ inv.failCount = 1

\* the statuses cancelAllOrders obtained from its cancel request
Obtained == Done("cancelAllOrders") /\ Issued("cancel") = 1 /\ inv.response.statuses # <<>>

Statuses == inv.response.statuses[1]

\* C19: successCount is the number of "success" statuses plus the number of
\* errors saying the order was already canceled or filled, failCount is the
\* number of all other statuses, and the two add up to the number of statuses.
C19_CountsPartitionStatuses ==
    Obtained =>
        LET ok    == { i \in 1..Len(Statuses) : Statuses[i] = SuccessStatus }
            gone  == { i \in 1..Len(Statuses) : Statuses[i] = GoneStatus }
            other == (1..Len(Statuses)) \ (ok \cup gone)
        IN  /\ inv.successCount = Cardinality(ok) + Cardinality(gone)
            /\ inv.failCount = Cardinality(other)
            /\ inv.successCount + inv.failCount = Len(Statuses)

\* one already-canceled error and one success: 2 successes, no failure
C19_Witness ==
    /\ Obtained /\ Len(Statuses) = 2
    /\ Statuses[1] = GoneStatus /\ Statuses[2] = SuccessStatus
    /\ inv.successCount = 2 /\ inv.failCount = 0

\* the positions of the statuses that count as failed
Failed ==
    { i \in 1..Len(Statuses) : Statuses[i] # SuccessStatus /\ Statuses[i] # GoneStatus }

\* C20: with a status array in hand cancelAllOrders completes normally; a
\* failed status does not keep the later ones from being counted, and the
\* failures are reported in order, each with the id of the order at its
\* position.
C20_FailuresReportedNotRaised ==
    Obtained =>
        /\ Returns
        /\ inv.successCount + inv.failCount = Len(Statuses)
        /\ Len(inv.warnings) = Cardinality(Failed)
        /\ \A i \in Failed :
              LET k == Cardinality({ j \in Failed : j <= i })
              IN  /\ inv.warnings[k].error = Statuses[i].error
                  /\ i <= Len(inv.openOrders) =>
                        inv.warnings[k].id = <<inv.openOrders[i].id>>

\* a failure at position 1 was reported for order 4 and the success after
\* it was counted
C20_Witness ==
    /\ Obtained /\ Len(Statuses) = 2
    /\ Statuses[1] = ObjStatus({"error"}, OtherMessage) /\ Statuses[2] = SuccessStatus
    /\ inv.successCount = 1 /\ inv.failCount = 1
    /\ inv.warnings = << [id |-> <<"4">>, error |-> OtherMessage] >>

\* C21 as stated: cancelAllOrders raises only when fetching the open orders
\* fails or when a market cannot be resolved (a failed market lookup
\* included); every outcome of the batched cancel request completes normally.
C21_RaisesOnlyOnLookupFailure ==
    (Done("cancelAllOrders") /\ inv.outcome.kind = "throw") =>
        \/ inv.failed \in {"openOrders", "getMarkets"}
        \/ Raises("MarketNotFound")

\* C21 amended: cancelAllOrders raises when fetching the open orders fails,
\* when the market lookup fails, when a market cannot be resolved, and when
\* the batched cancel request is rejected with an error that carries no
\* status array; with a status array, returned or carried by the error, it
\* completes normally.
C21_RaisesOnLookupOrBareCancelFailure ==
    Done("cancelAllOrders") =>
        /\ inv.outcome.kind = "throw" =>
              \/ inv.failed \in {"openOrders", "getMarkets"}
              \/ Raises("MarketNotFound")
              \/ (inv.failed = "cancel" /\ inv.response = ThrownBare)
        /\ inv.response = ThrownBare => GatewayRaised("cancel")
        /\ (Issued("cancel") = 1 /\ inv.response # ThrownBare) => Returns

\* the batched cancel of two orders was rejected without statuses and
\* cancelAllOrders raised
C21_Witness ==
    /\ Done("cancelAllOrders") /\ Len(inv.openOrders) = 2
    /\ inv.response = ThrownBare /\ GatewayRaised("cancel")

\* the records a filter argument selects when every given argument filters
\* by its base
GivenMatching ==
    IF inv.symbolArg = <<>> THEN exOpen
    ELSE SelectSeq(exOpen, LAMBDA o : o.coin = Split0(inv.symbolArg[1]))

\* C22 as stated: every Order returned by getOpenOrders has remaining =
\* current size, filled = original size - current size, size = original size,
\* so that filled + remaining = size, and status open; with a symbol filter,
\* exactly the records whose coin is the filter's base are returned.
C22_OpenOrderAmounts ==
    (Done("getOpenOrders") /\ Returns) =>
        /\ Len(inv.outcome.value) = Len(GivenMatching)
        /\ \A i \in 1..Len(inv.outcome.value) :
              LET order == inv.outcome.value[i]
              IN  /\ order.remaining = ParseFloat(order.raw.sz)
                  /\ order.filled = DSub(ParseFloat(order.raw.origSz),
                                         ParseFloat(order.raw.sz))
                  /\ order.size = ParseFloat(order.raw.origSz)
                  /\ DEq(XAdd(order.filled, order.remaining), order.size)
                  /\ order.status = "open"

\* C22 amended: remaining = current size, size = original size and filled is
\* the double closest to original size - current size, so that
\* filled + remaining is within |filled| * 2^-52 of size; status open; with
\* a non-empty symbol filter exactly the records whose coin is the filter's
\* base are returned, one Order each, and with the empty string every record.
C22_OpenOrderAmountsRounded ==
    (Done("getOpenOrders") /\ Returns) =>
        /\ Len(inv.outcome.value) = Len(Matching)
        /\ \A i \in 1..Len(Matching) :
              LET order == inv.outcome.value[i]
                  record == Matching[i]
              IN  /\ order.raw = record
                  /\ order.remaining = ParseFloat(record.sz)
                  /\ order.filled = DSub(ParseFloat(record.origSz), ParseFloat(record.sz))
                  /\ order.size = ParseFloat(record.origSz)
                  /\ DLe(DAbs(XSub(XAdd(order.filled, order.remaining), order.size)),
                         XMul(DAbs(order.filled), TwoTo(-52)))
                  /\ order.status = "open"

\* of a BTC and another open order, the filter BTC returned the one BTC
\* order, 0.2 of 0.9 remaining, whose filled + remaining is not its size
C22_Witness ==
    /\ Done("getOpenOrders") /\ Returns
    /\ inv.symbolArg = << <<"BTC", "USD:USD">> >>
    /\ Len(exOpen) = 2 /\ Len(inv.outcome.value) = 1
    /\ inv.outcome.value[1].remaining = Num(2, 10)
    /\ inv.outcome.value[1].size = Num(9, 10)
    /\ ~DEq(XAdd(inv.outcome.value[1].filled, inv.outcome.value[1].remaining),
            inv.outcome.value[1].size)

\* C23: when both of its gateway calls succeed getOpenOrders returns
\* normally, one Order per record that passes the filter; a record whose
\* coin has no market carries the symbol "<coin>/USD:USD" and every other
\* record carries its market's symbol.
C23_SyntheticSymbolFallback ==
    (Done("getOpenOrders") /\ inv.failed = "") =>
        /\ Returns
        /\ Len(inv.outcome.value) = Len(Matching)
        /\ \A i \in 1..Len(Matching) :
              LET coin == Matching[i].coin
              IN  IF Resolvable(coin)
                  THEN \E k \in 1..Len(exMarkets) :
                          /\ exMarkets[k].base = coin
                          /\ inv.outcome.value[i].symbol = exMarkets[k].symbol
                  ELSE inv.outcome.value[i].symbol = <<coin, "USD:USD">>

\* a DOGE order without a market was returned beside an ETH order with its
\* market's symbol
C23_Witness ==
    /\ Done("getOpenOrders") /\ Returns /\ Len(inv.outcome.value) = 2
    /\ ~Resolvable("DOGE")
    /\ inv.outcome.value[1].symbol = <<"DOGE", "USD:USD">>
    /\ inv.outcome.value[2].symbol = <<"ETH", "USDC:USDC">>

\* C24: an invocation of placeOrder, cancelOrder or cancelAllOrders issues
\* the order/cancel request at most once, and a gateway call that fails is
\* the invocation's last one and raises its failure to the caller, through
\* getOpenOrders when that made the call.  (A cancel rejected with a status
\* array is, for cancelAllOrders, a response.)
C24_NoRetry ==
    inv.fn \in {"placeOrder", "cancelOrder", "cancelAllOrders"} =>
        /\ Issued("order") + Issued("cancel") <= 1
        /\ (inv.failed # ""
              /\ ~(inv.fn = "cancelAllOrders" /\ inv.response.statuses # <<>>)) =>
              /\ inv.pc \in {"done", "getOpenOrders"}
              /\ inv.pc = "done" => GatewayRaised(inv.failed)
              /\ inv.pc = "getOpenOrders" => inv.inner = GatewayFailure(inv.failed)
              /\ inv.gw[Len(inv.gw)].call = inv.failed

\* cancelOrder without a symbol ended at the failed open-order query, its
\* second gateway call
C24_Witness ==
    /\ Done("cancelOrder") /\ inv.failed = "openOrders"
    /\ GatewayRaised("openOrders") /\ Len(inv.gw) = 2

(***************************************************************************)
(* Tick alignment of the quote prices.                                     *)
(***************************************************************************)
MetadataNoBook == Generated /\ market.isSet /\ ~call.orderbook.given

\* the raw prices: fair * (1 -/+ spread / 10000), a result <= 0 taken as 0
RawBid ==
    DMax(Zero, DMul(call.fairPrice,
                    DSub(DI(1), DDiv(call.quote.spreadBps, DI(10000)))))

RawAsk ==
    DMax(Zero, DMul(call.fairPrice,
                    DAdd(DI(1), DDiv(call.quote.spreadBps, DI(10000)))))

\* C25: with metadata and no orderbook, bidPrice is the largest multiple of
\* tickSize <= the raw bid, askPrice is the smallest multiple of tickSize >=
\* the raw ask, and a raw price that is a multiple of tickSize is returned
\* unchanged.
C25_ConservativeTickAlignment ==
    MetadataNoBook =>
        LET bid == call.quote.bidPrice
            ask == call.quote.askPrice
        IN  /\ OnTick(bid, market.tickSize)
            /\ DLt(XSub(RawBid, market.tickSize), bid) /\ DLe(bid, RawBid)
            /\ OnTick(ask, market.tickSize)
            /\ DLe(RawAsk, ask) /\ DLt(ask, XAdd(RawAsk, market.tickSize))
            /\ OnTick(RawBid, market.tickSize) => DEq(bid, RawBid)
            /\ OnTick(RawAsk, market.tickSize) => DEq(ask, RawAsk)

(***************************************************************************)
(* Properties of HyperpsPriceFeed and of the scanner's refresh loop.       *)
(***************************************************************************)
\* C26: under every interleaving of connect() and disconnect() at most one
\* polling timer exists, and every timer that exists is the one pollInterval
\* refers to, so that a later disconnect() clears it.
C26_AtMostOneTimer ==
    /\ Cardinality(feed.timers) <= 1
    /\ feed.timers \subseteq {feed.pollInterval}

\* C27: between a disconnect() and the next connect() call the price
\* callback is not invoked and lastPrice and lastTimestamp do not change.
C27_QuietAfterDisconnect ==
    [][(feed.lastCall = "disconnect" /\ feed'.lastCall = "disconnect") =>
          /\ feed'.callbacks = feed.callbacks
          /\ feed'.lastPrice = feed.lastPrice
          /\ feed'.lastTimestamp = feed.lastTimestamp]_vars

\* C28: connected implies that the info client is set and that the timer
\* pollInterval refers to is active.
C28_ConnectedHasClientAndTimer ==
    feed.connected =>
        /\ feed.info
        /\ feed.pollInterval # 0
        /\ feed.pollInterval \in feed.timers

\* C29: at most one fetch started by the interval timer is in flight, a
\* fetch is in flight exactly while isFetching is true, so isFetching is
\* false again when the fetch has ended, and a tick during a fetch starts none.
C29_OneRefreshInFlight ==
    scan.phase = "running" =>
        /\ scan.inFlight <= 1
        /\ scan.isFetching <=> scan.inFlight = 1

\* a tick was skipped during a fetch, the fetch failed and isFetching is
\* false again
C29_Witness ==
    /\ scan.phase = "running" /\ scan.timer
    /\ scan.lastTick = "skipped" /\ scan.lastFetch = "failed"
    /\ ~scan.isFetching /\ scan.inFlight = 0

\* C30: a refresh whose fetch fails leaves markets and processed as the last
\* successful fetch left them, shows that list again, and neither clears the
\* timer nor ends the process.
C30_FailedRefreshKeepsList ==
    [][RefreshFetched([ok |-> FALSE, markets |-> <<>>]) =>
          /\ scan'.processed = scan.processed
          /\ scan'.processed = processMarkets(scan.options, scan.markets)
          /\ scan'.markets = scan.markets
          /\ scan'.rendered = Rendered(scan.options, scan.processed, FALSE)
          /\ scan'.timer /\ scan'.phase = "running"]_vars

\* after a failed refresh the scanner runs on and still shows two markets,
\* the wider spread first
C30_Witness ==
    /\ scan.phase = "running" /\ scan.timer /\ scan.lastFetch = "failed"
    /\ scan.options.sortField = "spread"
    /\ Len(scan.processed) = 2 /\ scan.processed[1] = EthData
    /\ scan.rendered = Rendered(scan.options, scan.processed, FALSE)

====
